---- MODULE Spec2Model ----
(***************************************************************************)
(* Agents of the price-monitor sample project                              *)
(* (docs/sample-project-1-price-monitor-alerts/agents/): the alert agent   *)
(* (alert_agent.py), the analysis agent (analysis_agent.py) and the price  *)
(* agent (price_agent.py); and the threshold store of the gas monitor of   *)
(* docs/sample-project-2-gas-fee-monitor/gas_monitor_agent.py.             *)
(*                                                                         *)
(* Floats are modelled as integers; an Optional number that is None is the *)
(* value NoneNum.  A storage key that is absent reads like the empty list  *)
(* in every handler (`if x is None: x = []`, `if not x`), so each key is a *)
(* sequence and an absent key is <<>>.  datetime.utcnow() is the counter   *)
(* `now`, advanced once per handled AnalysisResult.  The never-read field  *)
(* last_attempt of a pending entry is left out.                            *)
(***************************************************************************)
EXTENDS Integers, Sequences, FiniteSets, TLC

VARIABLES
  started,          \* the startup event handler has run
  alerts,           \* ctx.storage["alerts"]: list of AlertConfig dicts
  triggered_alerts, \* ctx.storage["triggered_alerts"]: list of notifications
  pending_alerts,   \* ctx.storage["pending_alerts"]: [alert, attempts]
  subscribed_users, \* ctx.storage["subscribed_users"]: list of addresses
  inbox,            \* AnalysisResult messages that will arrive, in order
  now,              \* the clock read by datetime.utcnow()
  outbox,           \* ctx.send calls of the last handler: [to, msg, ok]
  historical_data,  \* analysis agent, ctx.storage["historical_data"]
  analysis_results, \* analysis agent, ctx.storage["analysis_results"]
  analysis_inbox,   \* messages on their way to the analysis agent, in order
  analysis_started, \* the analysis agent's startup handler has run
  subscribed_agents,\* price agent, ctx.storage["subscribed_agents"]
  price_history,    \* price agent, ctx.storage["historical_data"]
  latest_prices,    \* price agent, ctx.storage["latest_prices"]
  price_inbox,      \* PriceRequest messages on their way to the price agent
  flushes,          \* alert agent: the runs of send_pending_alerts under way
  thresholds,       \* gas monitor, ctx.storage["thresholds"]
  gas_started,      \* the gas monitor's startup handler has run
  gas_inbox,        \* requests to the gas monitor that will arrive, in order
  previous_gas_level,  \* gas monitor, ctx.storage["previous_gas_level"]
  gas_notifications, \* gas monitor, ctx.storage["gas_notifications"]
  gas_historical_data, \* gas monitor, ctx.storage["historical_data"]
  gas_checks,       \* history: successful gas checks since the last startup
  agent_keys,       \* run.py: the agent_keys of main, then of start_agents
  sorted_agents,    \* run.py main: the agents sorted so far
  processes,        \* run.py: the global dictionary of agent processes
  agent_addresses,  \* run.py: the agents whose address was detected
  main_pc,          \* run.py main: "idle", "sort", "start", "watch"
  wake_at,          \* content analyzer: end of the sleep of the scheduler
  reports,          \* content analyzer: the times of the weekly reports
  relay_inbox,      \* relay alert agent: AlertMsg messages that will arrive
  webhook           \* relay alert agent: payloads the webhook accepted

\* the state of the alert agent, its clock left out
alertVars == <<started, alerts, triggered_alerts, pending_alerts,
               subscribed_users, inbox>>

\* the state of the analysis agent and of the price agent
historyVars == <<historical_data, analysis_results, analysis_inbox,
                 analysis_started, subscribed_agents, price_history,
                 latest_prices, price_inbox>>

\* the state of the gas monitor
gasVars == <<thresholds, gas_started, gas_inbox, previous_gas_level,
            gas_notifications, gas_historical_data, gas_checks>>

\* the state of the supervisor run.py
supervisorVars == <<agent_keys, sorted_agents, processes, agent_addresses,
                   main_pc>>

\* the state of the report scheduler of the content analyzer
reportVars == <<wake_at, reports>>

\* the state of the relay alert agent
relayVars == <<relay_inbox, webhook>>

\* the three of them
restVars == <<supervisorVars, reportVars, relayVars>>

vars == <<started, alerts, triggered_alerts, pending_alerts,
          subscribed_users, inbox, now, outbox, historical_data,
          analysis_results, analysis_inbox, analysis_started,
          subscribed_agents, price_history, latest_prices, price_inbox,
          flushes, thresholds, gas_started, gas_inbox,
          previous_gas_level, gas_notifications, gas_historical_data,
          gas_checks, agent_keys, sorted_agents, processes,
          agent_addresses, main_pc, wake_at, reports, relay_inbox, webhook>>

----------------------------------------------------------------------------
(* Bounds of the model *)

MaxInbox == 2
MaxRetryInbox == 1
MaxTrendPasses == 3
MaxEvalRules == 2
MaxStoreInbox == 2
MaxLogInbox == 2
MaxClock == 2
MaxRequests == 2
MaxGasInbox == 2
MaxFeedInbox == 2
MaxFlushInbox == 2
MaxFlushClock == 2

----------------------------------------------------------------------------
(* Values *)

NoneNum == -999
Absent == "absent"

MaxAttempts == 10
MaxTriggered == 100

UP == "up"
DOWN == "down"
SIDEWAYS == "sideways"
TrendDirection == {UP, DOWN, SIDEWAYS}

PRICE_ABOVE == "price_above"
PRICE_BELOW == "price_below"
PERCENT_CHANGE == "percent_change"
RSI_OVERBOUGHT == "rsi_overbought"
RSI_OVERSOLD == "rsi_oversold"
MACD_CROSSOVER == "macd_crossover"
MACD_CROSSUNDER == "macd_crossunder"
TREND_REVERSAL == "trend_reversal"

\* str.upper() on the three trend values (and on any other stored string)
Upper(s) ==
  CASE s = "up" -> "UP"
    [] s = "down" -> "DOWN"
    [] s = "sideways" -> "SIDEWAYS"
    [] OTHER -> s

\* Python truthiness of an Optional[float]: None and 0.0 are falsy
TruthyNum(x) == x # NoneNum /\ x # 0

\* Python truthiness of an Optional[str]: None and "" are falsy
TruthyStr(s) == s # Absent /\ s # ""

AlertConfig(id, symbol, type, threshold, active, prev) ==
  [alert_id |-> id, symbol |-> symbol, alert_type |-> type,
   threshold |-> threshold, active |-> active, previous_trend |-> prev]

\* AlertConfig.create: active defaults to True, additional_params to None
AlertConfigCreate(id, symbol, type, threshold) ==
  AlertConfig(id, symbol, type, threshold, TRUE, Absent)

AlertNotification(id, symbol, type, value, threshold, message, timestamp) ==
  [alert_id |-> id, symbol |-> symbol, alert_type |-> type,
   triggered_value |-> value, threshold |-> threshold,
   message |-> message, timestamp |-> timestamp]

AnalysisResult(symbol, price, rsi, macd, macd_signal, trend) ==
  [symbol |-> symbol, current_price |-> price, rsi |-> rsi, macd |-> macd,
   macd_signal |-> macd_signal, trend |-> trend]

\* the handler of a message is chosen by its model, here by its fields
IsAnalysisResult(msg) == "trend" \in DOMAIN msg

\* DEFAULT_CRYPTOCURRENCIES, set to two symbols
Symbols == {"BTC", "ETH"}

\* a storage dictionary of lists without any key: every symbol reads as []
NoHistory == [s \in Symbols |-> <<>>]

\* no stored AnalysisResult for any symbol
NoResult == [present |-> FALSE]
NoResults == [s \in Symbols |-> NoResult]

\* ctx.storage.get("latest_prices") is None
NoPrices == [present |-> FALSE]

\* the analysis agent and the price agent hold nothing and receive nothing
\* a run of send_pending_alerts that is not under way
NoFlush ==
  [pc |-> "idle", pending_alerts |-> <<>>, attached |-> FALSE, entry |-> 0,
   user |-> 0, success |-> TRUE, remaining_alerts |-> <<>>,
   alert_configs |-> <<>>]

\* the two callers of send_pending_alerts: the retry timer and the handler
\* of an AnalysisResult
Callers == {"retry_pending_alerts", "handle_analysis_result"}

\* no run of send_pending_alerts is under way
FlushIdle == flushes = [caller \in Callers |-> NoFlush]

\* ctx.storage.get("thresholds") is None
NoThresholds == [present |-> FALSE]

\* the gas monitor holds nothing, receives nothing and is not started
GasIdle ==
  /\ thresholds = NoThresholds
  /\ gas_started = FALSE
  /\ gas_inbox = <<>>
  /\ previous_gas_level = Absent
  /\ gas_notifications = <<>>
  /\ gas_historical_data = <<>>
  /\ gas_checks = 0

\* the keys of AGENTS
AgentKeys == {"price", "analysis", "alert", "user"}

\* run.py is not running, no report is scheduled, the relay agent receives
\* nothing
RestIdle ==
  /\ agent_keys = <<>>
  /\ sorted_agents = <<>>
  /\ processes = [agent_key \in AgentKeys |-> Absent]
  /\ agent_addresses = {}
  /\ main_pc = "idle"
  /\ wake_at = NoneNum
  /\ reports = <<>>
  /\ relay_inbox = <<>>
  /\ webhook = <<>>

HistoryIdle ==
  /\ historical_data = NoHistory
  /\ analysis_results = NoResults
  /\ analysis_inbox = <<>>
  /\ analysis_started = FALSE
  /\ subscribed_agents = <<>>
  /\ price_history = NoHistory
  /\ latest_prices = NoPrices
  /\ price_inbox = <<>>

----------------------------------------------------------------------------
(* check_price_alerts *)

\* variant: the symbol test is left out
MatchesAnySymbol(alert, symbol) == alert.active

Matches(alert, symbol) == alert.symbol = symbol /\ alert.active

\* variant: the threshold itself fires
PriceAboveFiresInclusive(alert, price) ==
  alert.alert_type = PRICE_ABOVE /\ price >= alert.threshold

PriceAboveFires(alert, price) ==
  alert.alert_type = PRICE_ABOVE /\ price > alert.threshold

PriceBelowFires(alert, price) ==
  alert.alert_type = PRICE_BELOW /\ price < alert.threshold

RECURSIVE check_price_alerts(_, _, _, _)
check_price_alerts(symbol, price, alert_list, timestamp) ==
  IF alert_list = <<>> THEN <<>>
  ELSE LET alert == Head(alert_list)
           rest == check_price_alerts(symbol, price, Tail(alert_list), timestamp)
       IN IF ~Matches(alert, symbol) THEN rest
          ELSE IF PriceAboveFires(alert, price) \/ PriceBelowFires(alert, price)
               THEN <<AlertNotification(alert.alert_id, symbol, alert.alert_type,
                        price, alert.threshold, <<>>, timestamp)>> \o rest
               ELSE rest

----------------------------------------------------------------------------
(* check_indicator_alerts *)

RsiOverboughtFires(alert, analysis) ==
  /\ alert.alert_type = RSI_OVERBOUGHT
  /\ TruthyNum(analysis.rsi)
  /\ analysis.rsi > alert.threshold

RsiOversoldFires(alert, analysis) ==
  /\ alert.alert_type = RSI_OVERSOLD
  /\ TruthyNum(analysis.rsi)
  /\ analysis.rsi < alert.threshold

MacdCrossoverFires(alert, analysis) ==
  /\ alert.alert_type = MACD_CROSSOVER
  /\ TruthyNum(analysis.macd) /\ TruthyNum(analysis.macd_signal)
  /\ analysis.macd > analysis.macd_signal /\ analysis.macd > 0

MacdCrossunderFires(alert, analysis) ==
  /\ alert.alert_type = MACD_CROSSUNDER
  /\ TruthyNum(analysis.macd) /\ TruthyNum(analysis.macd_signal)
  /\ analysis.macd < analysis.macd_signal /\ analysis.macd < 0

\* variant: a rule without previous_trend is compared like any other
TrendReversalFiresUnset(alert, analysis) ==
  /\ alert.alert_type = TREND_REVERSAL
  /\ alert.previous_trend # ""
  /\ alert.previous_trend # analysis.trend

TrendReversalFires(alert, analysis) ==
  /\ alert.alert_type = TREND_REVERSAL
  /\ TruthyStr(alert.previous_trend)
  /\ alert.previous_trend # analysis.trend

\* the notification one matching rule appends, <<>> when it does not fire
IndicatorNotification(alert, analysis, timestamp) ==
  IF RsiOverboughtFires(alert, analysis) \/ RsiOversoldFires(alert, analysis)
  THEN <<AlertNotification(alert.alert_id, analysis.symbol, alert.alert_type,
           analysis.rsi, alert.threshold, <<>>, timestamp)>>
  ELSE IF MacdCrossoverFires(alert, analysis) \/ MacdCrossunderFires(alert, analysis)
  THEN <<AlertNotification(alert.alert_id, analysis.symbol, alert.alert_type,
           analysis.macd, analysis.macd_signal, <<>>, timestamp)>>
  ELSE IF TrendReversalFires(alert, analysis)
  THEN <<AlertNotification(alert.alert_id, analysis.symbol, alert.alert_type,
           0, 0, <<Upper(alert.previous_trend), Upper(analysis.trend)>>,
           timestamp)>>
  ELSE <<>>

RECURSIVE check_indicator_alerts(_, _, _)
check_indicator_alerts(analysis, alert_list, timestamp) ==
  IF alert_list = <<>> THEN <<>>
  ELSE LET alert == Head(alert_list)
           rest == check_indicator_alerts(analysis, Tail(alert_list), timestamp)
       IN IF ~Matches(alert, analysis.symbol) THEN rest
          ELSE IndicatorNotification(alert, analysis, timestamp) \o rest

\* variant: previous_trend is not written back
UpdatePreviousTrendSkipped(alert, analysis) == alert

\* variant: the trend is written to every matching TREND_REVERSAL rule
UpdatePreviousTrendAlways(alert, analysis) ==
  IF Matches(alert, analysis.symbol) /\ alert.alert_type = TREND_REVERSAL
  THEN [alert EXCEPT !.previous_trend = analysis.trend]
  ELSE alert

\* the in-place write `alert.additional_params["previous_trend"] = trend`
UpdatePreviousTrend(alert, analysis) ==
  IF Matches(alert, analysis.symbol) /\ TrendReversalFires(alert, analysis)
  THEN [alert EXCEPT !.previous_trend = analysis.trend]
  ELSE alert

\* variant: the rule list is saved as it was loaded
AlertsAsLoaded(analysis, alert_list) == alert_list

\* alert_configs as check_indicator_alerts leaves them
AlertsAfterCheck(analysis, alert_list) ==
  [i \in 1..Len(alert_list) |-> UpdatePreviousTrend(alert_list[i], analysis)]

----------------------------------------------------------------------------
(* send_pending_alerts *)

\* variant: an entry is kept up to and including 10 attempts
KeepPendingInclusive(attempts) == attempts <= MaxAttempts

\* `if alert_data["attempts"] < 10` after the increment
KeepPending(attempts) == attempts < MaxAttempts

\* the sends of one entry: one ctx.send per subscribed user, in order
EntrySends(entry, users, ok) ==
  [j \in 1..Len(users) |-> [to |-> users[j], msg |-> entry.alert, ok |-> ok[j]]]

\* variant: one successful send counts as delivery
EntrySuccessAny(users, ok) == \E j \in 1..Len(users) : ok[j]

\* `success`: no send of the entry raised
EntrySuccess(users, ok) == \A j \in 1..Len(users) : ok[j]

\* variant: a failed entry is kept without counting the attempt
EntryRemainingUncounted(entry, users, ok) ==
  IF \A j \in 1..Len(users) : ok[j] THEN <<>> ELSE <<entry>>

\* what one entry contributes to remaining_alerts
EntryRemaining(entry, users, ok) ==
  IF EntrySuccess(users, ok) THEN <<>>
  ELSE IF KeepPending(entry.attempts + 1)
       THEN <<[entry EXCEPT !.attempts = entry.attempts + 1]>>
       ELSE <<>>

RECURSIVE FlushSends(_, _, _, _)
FlushSends(queue, users, ok, i) ==
  IF i > Len(queue) THEN <<>>
  ELSE EntrySends(queue[i], users, ok[i]) \o FlushSends(queue, users, ok, i + 1)

RECURSIVE FlushRemaining(_, _, _, _)
FlushRemaining(queue, users, ok, i) ==
  IF i > Len(queue) THEN <<>>
  ELSE EntryRemaining(queue[i], users, ok[i])
         \o FlushRemaining(queue, users, ok, i + 1)

\* the outcomes of the sends of one flush: ok[i][j] is FALSE when the send
\* of entry i to user j raises
SendOutcomes(queue, users) ==
  [1..Len(queue) -> [1..Len(users) -> BOOLEAN]]

\* send_pending_alerts on the stored queue `queue`
send_pending_alerts(queue) ==
  IF queue = <<>> \/ subscribed_users = <<>>
  THEN /\ pending_alerts' = queue
       /\ outbox' = <<>>
  ELSE \E ok \in SendOutcomes(queue, subscribed_users) :
         /\ pending_alerts' = FlushRemaining(queue, subscribed_users, ok, 1)
         /\ outbox' = FlushSends(queue, subscribed_users, ok, 1)

\* @alert_agent.on_interval(period=30.0)
retry_pending_alerts ==
  /\ started
  /\ send_pending_alerts(pending_alerts)
  /\ UNCHANGED <<started, alerts, triggered_alerts, subscribed_users, inbox, now>>
  /\ UNCHANGED historyVars
  /\ UNCHANGED <<flushes, gasVars, restVars>>

----------------------------------------------------------------------------
(* startup *)

DefaultAlerts ==
  << AlertConfigCreate("uuid1", "BTC", PRICE_ABOVE, 80000),
     AlertConfigCreate("uuid2", "ETH", PRICE_BELOW, 1600),
     AlertConfigCreate("uuid3", "SOL", PRICE_ABOVE, 100) >>

\* os.getenv("USER_AGENT_ADDRESS"): unset (<<>>) or one address
UserAgentAddress == {<<>>, <<"user1">>}

\* variant: the default rules are added at every start
startupReseeding ==
  /\ ~started
  /\ started' = TRUE
  /\ alerts' = alerts \o DefaultAlerts
  /\ subscribed_users' = subscribed_users
  /\ outbox' = <<>>
  /\ UNCHANGED <<triggered_alerts, pending_alerts, inbox, now>>
  /\ UNCHANGED historyVars
  /\ UNCHANGED <<flushes, gasVars, restVars>>

\* variant: the log and the queue are set to [] at every start
startupResetting ==
  /\ ~started
  /\ started' = TRUE
  /\ alerts' = IF alerts = <<>> THEN DefaultAlerts ELSE alerts
  /\ triggered_alerts' = <<>>
  /\ pending_alerts' = <<>>
  /\ subscribed_users' = subscribed_users
  /\ outbox' = <<>>
  /\ UNCHANGED <<inbox, now>>
  /\ UNCHANGED historyVars
  /\ UNCHANGED <<flushes, gasVars, restVars>>

startup ==
  /\ ~started
  /\ started' = TRUE
  /\ alerts' = IF alerts = <<>> THEN DefaultAlerts ELSE alerts
  /\ IF subscribed_users = <<>>
     THEN \E address \in UserAgentAddress : subscribed_users' = address
     ELSE subscribed_users' = subscribed_users
  /\ outbox' = <<>>
  /\ UNCHANGED <<triggered_alerts, pending_alerts, inbox, now>>
  /\ UNCHANGED historyVars
  /\ UNCHANGED <<flushes, gasVars, restVars>>

----------------------------------------------------------------------------
(* handle_analysis_result *)

\* variant: the oldest n entries are kept
FirstN(seq, n) ==
  IF Len(seq) > n THEN SubSeq(seq, 1, n) ELSE seq

\* all_triggered_alerts[-100:]
LastN(seq, n) ==
  IF Len(seq) > n THEN SubSeq(seq, Len(seq) - n + 1, Len(seq)) ELSE seq

PendingEntries(notifications) ==
  [i \in 1..Len(notifications) |-> [alert |-> notifications[i], attempts |-> 0]]

TriggeredBy(msg, alert_list, timestamp) ==
  check_price_alerts(msg.symbol, msg.current_price, alert_list, timestamp)
    \o check_indicator_alerts(msg, alert_list, timestamp)

handle_analysis_result ==
  /\ started
  /\ inbox # <<>>
  /\ IsAnalysisResult(Head(inbox))
  /\ LET msg == Head(inbox)
         triggered == TriggeredBy(msg, alerts, now)
     IN /\ IF triggered # <<>>
           THEN /\ triggered_alerts' =
                     LastN(triggered_alerts \o triggered, MaxTriggered)
                /\ send_pending_alerts(pending_alerts \o PendingEntries(triggered))
           ELSE /\ outbox' = <<>>
                /\ UNCHANGED <<triggered_alerts, pending_alerts>>
        /\ alerts' = AlertsAfterCheck(msg, alerts)
  /\ inbox' = Tail(inbox)
  /\ now' = now + 1
  /\ UNCHANGED <<started, subscribed_users>>
  /\ UNCHANGED historyVars
  /\ UNCHANGED <<flushes, gasVars, restVars>>

----------------------------------------------------------------------------
(* Specifications *)

Next ==
  \/ startup
  \/ handle_analysis_result
  \/ retry_pending_alerts

\* every sequence over S of length at most n
RECURSIVE SeqsUpTo(_, _)
SeqsUpTo(S, n) ==
  IF n = 0 THEN {<<>>}
  ELSE LET shorter == SeqsUpTo(S, n - 1)
       IN shorter \cup {Append(s, x) : s \in shorter, x \in S}

Neutral(symbol, price) == AnalysisResult(symbol, price, 50, 0, 0, SIDEWAYS)

\* Dispatcher: a fresh rule store, any stored subscriber list, price results
DispatchMsgs == {Neutral("BTC", 81000), Neutral("SOL", 50)}

StoredSubscribers == {<<>>, <<"user1">>, <<"user1", "user2">>}

Init ==
  /\ started = FALSE
  /\ alerts = <<>>
  /\ triggered_alerts = <<>>
  /\ pending_alerts = <<>>
  /\ subscribed_users \in StoredSubscribers
  /\ inbox \in SeqsUpTo(DispatchMsgs, MaxInbox)
  /\ now = 0
  /\ outbox = <<>>
  /\ HistoryIdle
  /\ FlushIdle
  /\ GasIdle
  /\ RestIdle

Spec == Init /\ [][Next]_vars

\* Retry: the 30-second interval timer keeps firing
RetryMsgs == {Neutral("BTC", 81000), Neutral("ETH", 1500), Neutral("SOL", 50)}

InitRetry ==
  /\ started = FALSE
  /\ alerts = <<>>
  /\ triggered_alerts = <<>>
  /\ pending_alerts = <<>>
  /\ subscribed_users \in StoredSubscribers
  /\ inbox \in SeqsUpTo(RetryMsgs, MaxRetryInbox)
  /\ now = 0
  /\ outbox = <<>>
  /\ HistoryIdle
  /\ FlushIdle
  /\ GasIdle
  /\ RestIdle

RetrySpec == InitRetry /\ [][Next]_vars /\ WF_vars(retry_pending_alerts)

\* analysis passes only (the timer left out)
PassNext ==
  \/ startup
  \/ handle_analysis_result

\* Trend reversal: a stored TREND_REVERSAL rule, then a sequence of passes
StoredTrends == {Absent, "", UP, DOWN, "UP"}

TrendStores ==
  {<<AlertConfig("t1", "BTC", TREND_REVERSAL, 0, TRUE, prev)>> :
      prev \in StoredTrends}
  \cup
  {<<AlertConfig("t1", "BTC", TREND_REVERSAL, 0, FALSE, UP)>>,
   <<AlertConfig("t1", "BTC", TREND_REVERSAL, 0, TRUE, DOWN),
     AlertConfig("t2", "ETH", TREND_REVERSAL, 0, TRUE, UP),
     AlertConfig("p1", "BTC", PRICE_ABOVE, 30, TRUE, Absent)>>}

TrendMsgs ==
  {AnalysisResult("BTC", 50, 50, 0, 0, trend) : trend \in TrendDirection}

InitTrend ==
  /\ started = FALSE
  /\ alerts \in TrendStores
  /\ triggered_alerts = <<>>
  /\ pending_alerts = <<>>
  /\ subscribed_users = <<>>
  /\ inbox \in SeqsUpTo(TrendMsgs, MaxTrendPasses)
  /\ now = 0
  /\ outbox = <<>>
  /\ HistoryIdle
  /\ FlushIdle
  /\ GasIdle
  /\ RestIdle

TrendSpec == InitTrend /\ [][PassNext]_vars

\* Evaluation: one stored rule list and one AnalysisResult
EvalTypes ==
  {PRICE_ABOVE, PRICE_BELOW, PERCENT_CHANGE, RSI_OVERBOUGHT, RSI_OVERSOLD,
   MACD_CROSSOVER, MACD_CROSSUNDER}

EvalRules(id) ==
  {AlertConfig(id, symbol, type, threshold, active, Absent) :
      symbol \in {"BTC", "ETH"}, type \in EvalTypes,
      threshold \in {30, 70}, active \in BOOLEAN}
  \cup
  {AlertConfig(id, symbol, TREND_REVERSAL, 0, active, prev) :
      symbol \in {"BTC", "ETH"}, active \in BOOLEAN,
      prev \in {Absent, UP, DOWN}}

ListRules(id) ==
  {AlertConfig(id, "BTC", PRICE_ABOVE, 30, TRUE, Absent),
   AlertConfig(id, "BTC", PRICE_ABOVE, 30, FALSE, Absent),
   AlertConfig(id, "ETH", PRICE_ABOVE, 30, TRUE, Absent),
   AlertConfig(id, "BTC", PRICE_BELOW, 70, TRUE, Absent),
   AlertConfig(id, "BTC", RSI_OVERSOLD, 30, TRUE, Absent),
   AlertConfig(id, "BTC", TREND_REVERSAL, 0, TRUE, UP)}

EvalIds == <<"a1", "a2", "a3", "a4">>

\* rule lists of length n whose i-th rule has the i-th id
RECURSIVE RuleLists(_)
RuleLists(n) ==
  IF n = 0 THEN {<<>>}
  ELSE {Append(l, r) : l \in RuleLists(n - 1), r \in ListRules(EvalIds[n])}

EvalStores ==
  {<<r>> : r \in EvalRules(EvalIds[1])}
  \cup UNION {RuleLists(n) : n \in 2..MaxEvalRules}

EvalMsgs ==
  {AnalysisResult("BTC", price, 50, 0, 0, SIDEWAYS) : price \in {30, 50, 70}}
  \cup
  {AnalysisResult("BTC", 50, rsi, 0, 0, SIDEWAYS) : rsi \in {NoneNum, 0, 30, 100}}
  \cup
  {AnalysisResult("BTC", 50, 50, macd, macd_signal, SIDEWAYS) :
      macd \in {NoneNum, -2, 0, 2}, macd_signal \in {NoneNum, -3, 0, 3}}
  \cup
  {AnalysisResult("BTC", 50, 50, 0, 0, trend) : trend \in TrendDirection}

InitEval ==
  /\ started = FALSE
  /\ alerts \in EvalStores
  /\ triggered_alerts = <<>>
  /\ pending_alerts = <<>>
  /\ subscribed_users = <<"user1">>
  /\ inbox \in {<<msg>> : msg \in EvalMsgs}
  /\ now = 0
  /\ outbox = <<>>
  /\ HistoryIdle
  /\ FlushIdle
  /\ GasIdle
  /\ RestIdle

EvalSpec == InitEval /\ [][PassNext]_vars

\* End-to-end scenario: fresh storage; BTC=81000, ETH=1500, SOL=50 arrive
\* in any order
ScenarioMsgs ==
  {Neutral("BTC", 81000), Neutral("ETH", 1500), Neutral("SOL", 50)}

ScenarioInboxes ==
  {s \in [1..3 -> ScenarioMsgs] : \A i, j \in 1..3 : i # j => s[i] # s[j]}

InitScenario ==
  /\ started = FALSE
  /\ alerts = <<>>
  /\ triggered_alerts = <<>>
  /\ pending_alerts = <<>>
  /\ subscribed_users \in StoredSubscribers
  /\ inbox \in ScenarioInboxes
  /\ now = 0
  /\ outbox = <<>>
  /\ HistoryIdle
  /\ FlushIdle
  /\ GasIdle
  /\ RestIdle

ScenarioSpec == InitScenario /\ [][Next]_vars

----------------------------------------------------------------------------
(* Steps and observations the properties are stated over *)

\* a step of handle_analysis_result: the head of the inbox is consumed
PassStep ==
  /\ started
  /\ inbox # <<>>
  /\ IsAnalysisResult(Head(inbox))
  /\ inbox' = Tail(inbox)

\* the notifications a step appended to the triggered-alert log
NewTriggered ==
  SubSeq(triggered_alerts', Len(triggered_alerts) + 1, Len(triggered_alerts'))

\* the queue a flush of this step works on: the stored one in a timer step,
\* the stored one plus the fresh entries in an analysis pass
FlushQueue ==
  IF inbox' = inbox THEN pending_alerts
  ELSE pending_alerts \o
         [i \in 1..Len(NewTriggered) |-> [alert |-> NewTriggered[i], attempts |-> 0]]

\* a step in which send_pending_alerts gets past its two early returns
FlushStep ==
  /\ started
  /\ inbox' = inbox \/ (PassStep /\ NewTriggered # <<>>)
  /\ FlushQueue # <<>>
  /\ subscribed_users # <<>>

\* the send of entry i to subscriber j, as recorded in the outbox of the step
SendOf(i, j) == outbox'[(i - 1) * Len(subscribed_users) + j]

AllSent(i) == \A j \in 1..Len(subscribed_users) : SendOf(i, j).ok

QueuedAfter(entry) == \E k \in 1..Len(pending_alerts') : pending_alerts'[k] = entry

GoneAfter(alert) == \A k \in 1..Len(pending_alerts') : pending_alerts'[k].alert # alert

WithAttempts(entry, n) == [alert |-> entry.alert, attempts |-> n]

----------------------------------------------------------------------------
(* C1: every stored pending entry has 0 <= attempts <= 9, and in a flush an
   entry whose broadcast failed stays queued (with the incremented counter)
   exactly when that counter is below 10: after 9 failures it is still
   queued, after the 10th it is gone. *)
C1_AttemptsInRange ==
  \A i \in 1..Len(pending_alerts) : pending_alerts[i].attempts \in 0..9

C1_FailedEntryKeptBelowTen ==
  FlushStep /\ Len(outbox') = Len(FlushQueue) * Len(subscribed_users) =>
    \A i \in 1..Len(FlushQueue) :
      ~AllSent(i) =>
        IF FlushQueue[i].attempts + 1 < 10
        THEN QueuedAfter(WithAttempts(FlushQueue[i], FlushQueue[i].attempts + 1))
        ELSE GoneAfter(FlushQueue[i].alert)

C2_FlushStep ==
  FlushStep =>
    /\ Len(outbox') = Len(FlushQueue) * Len(subscribed_users)
    /\ \A i \in 1..Len(FlushQueue) :
         /\ \A j \in 1..Len(subscribed_users) :
              /\ SendOf(i, j).to = subscribed_users[j]
              /\ SendOf(i, j).msg = FlushQueue[i].alert
         /\ AllSent(i) => GoneAfter(FlushQueue[i].alert)
         /\ ~AllSent(i) /\ FlushQueue[i].attempts + 1 < 10 =>
              /\ QueuedAfter(WithAttempts(FlushQueue[i], FlushQueue[i].attempts + 1))
              /\ Cardinality({k \in 1..Len(pending_alerts') :
                    pending_alerts'[k].alert = FlushQueue[i].alert}) = 1
    /\ Len(pending_alerts') <= Len(FlushQueue)
    /\ (\A i \in 1..Len(FlushQueue) : AllSent(i)) => pending_alerts' = <<>>

Queued(id, timestamp) ==
  \E k \in 1..Len(pending_alerts) :
    /\ pending_alerts[k].alert.alert_id = id
    /\ pending_alerts[k].alert.timestamp = timestamp

QueuedIds == {DefaultAlerts[i].alert_id : i \in 1..Len(DefaultAlerts)}

IsReversal(n) == triggered_alerts[n].alert_type = TREND_REVERSAL

SuccessiveReversals(i, k) ==
  /\ i < k
  /\ IsReversal(i) /\ IsReversal(k)
  /\ triggered_alerts[i].alert_id = triggered_alerts[k].alert_id
  /\ \A m \in (i + 1)..(k - 1) :
       triggered_alerts[m].alert_id # triggered_alerts[i].alert_id

C4_OncePerTransition ==
  \A i, k \in 1..Len(triggered_alerts) :
    SuccessiveReversals(i, k) =>
      triggered_alerts[k].message[2] # triggered_alerts[i].message[2]

\* a rule fired in one pass and not in the next one, which was for the same
\* symbol: that pass had the trend of the firing pass
C4_Witness ==
  \E i \in 1..Len(triggered_alerts) :
    /\ IsReversal(i)
    /\ now >= triggered_alerts[i].timestamp + 2
    /\ \A k \in 1..Len(triggered_alerts) :
         triggered_alerts[k].alert_id = triggered_alerts[i].alert_id =>
           triggered_alerts[k].timestamp # triggered_alerts[i].timestamp + 1

(* C5: the pass in which a TREND_REVERSAL rule fires is the step that leaves
   the stored rule with previous_trend equal to the trend of the result. *)
C5_PassStep ==
  PassStep =>
    \A n \in 1..Len(NewTriggered) :
      NewTriggered[n].alert_type = TREND_REVERSAL =>
        \E i \in 1..Len(alerts') :
          /\ alerts'[i].alert_id = NewTriggered[n].alert_id
          /\ alerts'[i].previous_trend = Head(inbox).trend
          /\ alerts[i].previous_trend # Head(inbox).trend

C5_PreviousTrendStored == [][C5_PassStep]_vars

\* the last logged notification is a reversal and the stored rule carries
\* the trend it reported
C5_Witness ==
  /\ triggered_alerts # <<>>
  /\ IsReversal(Len(triggered_alerts))
  /\ \E i \in 1..Len(alerts) :
       /\ alerts[i].alert_id = triggered_alerts[Len(triggered_alerts)].alert_id
       /\ Upper(alerts[i].previous_trend) =
            triggered_alerts[Len(triggered_alerts)].message[2]

----------------------------------------------------------------------------
(* Evaluation of one pass *)

\* the number of notifications the step logged for rule `id`
FiredCount(id) ==
  Cardinality({n \in 1..Len(NewTriggered) : NewTriggered[n].alert_id = id})

Fired(id) == FiredCount(id) >= 1

Applies(alert) == alert.active /\ alert.symbol = Head(inbox).symbol

(* C6: an active PRICE_ABOVE rule for the result's symbol fires iff
   current_price > threshold, an active PRICE_BELOW rule iff
   current_price < threshold; a price equal to the threshold fires neither. *)
C6_PassStep ==
  PassStep =>
    \A i \in 1..Len(alerts) :
      Applies(alerts[i]) =>
        /\ alerts[i].alert_type = PRICE_ABOVE =>
             (Fired(alerts[i].alert_id)
                <=> Head(inbox).current_price > alerts[i].threshold)
        /\ alerts[i].alert_type = PRICE_BELOW =>
             (Fired(alerts[i].alert_id)
                <=> Head(inbox).current_price < alerts[i].threshold)

C6_StrictPriceThreshold == [][C6_PassStep]_vars

\* a price rule has fired on a price strictly beyond its threshold
C6_Witness ==
  \E n \in 1..Len(triggered_alerts) :
    \/ /\ triggered_alerts[n].alert_type = PRICE_ABOVE
       /\ triggered_alerts[n].triggered_value > triggered_alerts[n].threshold
    \/ /\ triggered_alerts[n].alert_type = PRICE_BELOW
       /\ triggered_alerts[n].triggered_value < triggered_alerts[n].threshold

(* C7: an active RSI_OVERBOUGHT rule fires iff rsi > threshold and an active
   RSI_OVERSOLD rule iff rsi < threshold, for every rsi in [0,100]. *)
C7_PassStep ==
  PassStep /\ Head(inbox).rsi \in 0..100 =>
    \A i \in 1..Len(alerts) :
      Applies(alerts[i]) =>
        /\ alerts[i].alert_type = RSI_OVERBOUGHT =>
             (Fired(alerts[i].alert_id) <=> Head(inbox).rsi > alerts[i].threshold)
        /\ alerts[i].alert_type = RSI_OVERSOLD =>
             (Fired(alerts[i].alert_id) <=> Head(inbox).rsi < alerts[i].threshold)

C7_RsiThreshold == [][C7_PassStep]_vars

(* C8: an active MACD_CROSSOVER rule fires iff macd > macd_signal and
   macd > 0, an active MACD_CROSSUNDER rule iff macd < macd_signal and
   macd < 0, for every pair of macd and signal-line values. *)
C8_PassStep ==
  PassStep /\ Head(inbox).macd # NoneNum /\ Head(inbox).macd_signal # NoneNum =>
    \A i \in 1..Len(alerts) :
      Applies(alerts[i]) =>
        /\ alerts[i].alert_type = MACD_CROSSOVER =>
             (Fired(alerts[i].alert_id)
                <=> (Head(inbox).macd > Head(inbox).macd_signal
                       /\ Head(inbox).macd > 0))
        /\ alerts[i].alert_type = MACD_CROSSUNDER =>
             (Fired(alerts[i].alert_id)
                <=> (Head(inbox).macd < Head(inbox).macd_signal
                       /\ Head(inbox).macd < 0))

C8_MacdCross == [][C8_PassStep]_vars

(* C9: in one pass every stored rule yields exactly one notification when it
   is active, its symbol is the result's and the firing condition of its
   type holds, and none otherwise. *)
FiringCondition(alert, msg) ==
  CASE alert.alert_type = PRICE_ABOVE -> msg.current_price > alert.threshold
    [] alert.alert_type = PRICE_BELOW -> msg.current_price < alert.threshold
    [] alert.alert_type = RSI_OVERBOUGHT ->
         msg.rsi # NoneNum /\ msg.rsi > alert.threshold
    [] alert.alert_type = RSI_OVERSOLD ->
         msg.rsi # NoneNum /\ msg.rsi < alert.threshold
    [] alert.alert_type = MACD_CROSSOVER ->
         /\ msg.macd # NoneNum /\ msg.macd_signal # NoneNum
         /\ msg.macd > msg.macd_signal /\ msg.macd > 0
    [] alert.alert_type = MACD_CROSSUNDER ->
         /\ msg.macd # NoneNum /\ msg.macd_signal # NoneNum
         /\ msg.macd < msg.macd_signal /\ msg.macd < 0
    [] alert.alert_type = TREND_REVERSAL ->
         /\ alert.previous_trend \notin {Absent, ""}
         /\ alert.previous_trend # msg.trend
    [] OTHER -> FALSE

C9_PassStep ==
  PassStep =>
    \A i \in 1..Len(alerts) :
      FiredCount(alerts[i].alert_id) =
        IF Applies(alerts[i]) /\ FiringCondition(alerts[i], Head(inbox))
        THEN 1 ELSE 0

C9_OneNotificationPerFiringRule == [][C9_PassStep]_vars

(* C10: from the three default rules, the results BTC=81000, ETH=1500 and
   SOL=50 yield exactly two notifications, one for BTC with threshold 80000
   and triggered value 81000 and one for ETH, and none for SOL. *)
C10_DefaultScenario ==
  started /\ inbox = <<>> =>
    /\ Len(triggered_alerts) = 2
    /\ \E n \in 1..2 :
         /\ triggered_alerts[n].symbol = "BTC"
         /\ triggered_alerts[n].threshold = 80000
         /\ triggered_alerts[n].triggered_value = 81000
    /\ \E n \in 1..2 : triggered_alerts[n].symbol = "ETH"
    /\ \A n \in 1..2 : triggered_alerts[n].symbol # "SOL"

\* the three results have been evaluated and both notifications delivered
C10_Witness ==
  /\ started /\ inbox = <<>>
  /\ Len(triggered_alerts) = 2
  /\ pending_alerts = <<>>
  /\ subscribed_users # <<>>

----------------------------------------------------------------------------
(* C11: what a pass leaves alone *)

\* a rule with its carried-over trend blanked
WithoutTrend(alert) == [alert EXCEPT !.previous_trend = Absent]

C11_PassStep ==
  PassStep =>
    /\ Len(alerts') = Len(alerts)
    /\ \A i \in 1..Len(alerts) :
         /\ WithoutTrend(alerts'[i]) = WithoutTrend(alerts[i])
         /\ alerts'[i].previous_trend # alerts[i].previous_trend =>
              /\ alerts[i].alert_type = TREND_REVERSAL
              /\ Fired(alerts[i].alert_id)
    /\ historical_data' = historical_data
    /\ price_history' = price_history

\* C11: a pass of handle_analysis_result keeps the number of stored rules,
\* their ids, their order and every field but previous_trend; it changes
\* previous_trend only on a TREND_REVERSAL rule that fired in this pass;
\* and it modifies no stored price history.
C11_RuleStoreFrame == [][C11_PassStep]_vars

\* a pass fired t1 and rewrote its trend, next to two rules it left alone
C11_Witness ==
  /\ Len(alerts) = 3
  /\ alerts[1].alert_id = "t1" /\ alerts[1].previous_trend = UP
  /\ alerts[2] = AlertConfig("t2", "ETH", TREND_REVERSAL, 0, TRUE, UP)
  /\ alerts[3] = AlertConfig("p1", "BTC", PRICE_ABOVE, 30, TRUE, Absent)
  /\ Len(triggered_alerts) = 2
  /\ inbox = <<>>

----------------------------------------------------------------------------
(* Rule store requests: configure, delete, list *)

\* requests carry the envelope's sender next to the fields of their model
ConfigureAlertRequest(sender, config) == [sender |-> sender, config |-> config]
DeleteAlertRequest(sender, id) == [sender |-> sender, alert_id |-> id]
ListAlertsRequest(sender, symbol, active_only) ==
  [sender |-> sender, symbol |-> symbol, active_only |-> active_only]

IsConfigureAlertRequest(msg) == "config" \in DOMAIN msg
IsDeleteAlertRequest(msg) == DOMAIN msg = {"sender", "alert_id"}
IsListAlertsRequest(msg) == "active_only" \in DOMAIN msg

ConfigureAlertResponse(success, id, message) ==
  [success |-> success, alert_id |-> id, message |-> message]
DeleteAlertResponse(success, message) ==
  [success |-> success, message |-> message]
ListAlertsResponse(alert_list) == [alerts |-> alert_list]

\* a reply: one ctx.send outside any try block, taken to return
Reply(to, msg) == [to |-> to, msg |-> msg, ok |-> TRUE]

\* the `for i, alert in enumerate(alert_configs)` search with its break:
\* the first position holding the id, 0 for None
RECURSIVE FindAlert(_, _, _)
FindAlert(alert_list, id, i) ==
  IF i > Len(alert_list) THEN 0
  ELSE IF alert_list[i].alert_id = id THEN i
  ELSE FindAlert(alert_list, id, i + 1)

\* variant: an existing rule is kept and the new one appended
ConfiguredAppended(alert_list, config) == Append(alert_list, config)

\* alert_configs after the update-or-append of handle_configure_alert
Configured(alert_list, config) ==
  LET existing_alert_index == FindAlert(alert_list, config.alert_id, 1)
  IN IF existing_alert_index # 0
     THEN [alert_list EXCEPT ![existing_alert_index] = config]
     ELSE Append(alert_list, config)

handle_configure_alert ==
  /\ started
  /\ inbox # <<>>
  /\ IsConfigureAlertRequest(Head(inbox))
  /\ LET msg == Head(inbox)
         alert_config == msg.config
         existing_alert_index == FindAlert(alerts, alert_config.alert_id, 1)
     IN /\ outbox' = << Reply(msg.sender,
                          ConfigureAlertResponse(TRUE, alert_config.alert_id,
                            IF existing_alert_index # 0
                            THEN "Alert updated successfully"
                            ELSE "Alert created successfully")) >>
        /\ alerts' = Configured(alerts, alert_config)
  /\ inbox' = Tail(inbox)
  /\ UNCHANGED <<started, triggered_alerts, pending_alerts, subscribed_users, now>>
  /\ UNCHANGED historyVars
  /\ UNCHANGED <<flushes, gasVars, restVars>>

\* alert_configs.pop(i)
Pop(alert_list, i) ==
  SubSeq(alert_list, 1, i - 1) \o SubSeq(alert_list, i + 1, Len(alert_list))

\* variant: every rule from the found one on is removed
DeletedFrom(alert_list, id) ==
  LET alert_to_delete == FindAlert(alert_list, id, 1)
  IN IF alert_to_delete # 0
     THEN SubSeq(alert_list, 1, alert_to_delete - 1)
     ELSE alert_list

\* the stored rule list after handle_delete_alert
Deleted(alert_list, id) ==
  LET alert_to_delete == FindAlert(alert_list, id, 1)
  IN IF alert_to_delete # 0 THEN Pop(alert_list, alert_to_delete)
     ELSE alert_list

handle_delete_alert ==
  /\ started
  /\ inbox # <<>>
  /\ IsDeleteAlertRequest(Head(inbox))
  /\ LET msg == Head(inbox)
         alert_to_delete == FindAlert(alerts, msg.alert_id, 1)
     IN /\ alerts' = Deleted(alerts, msg.alert_id)
        /\ outbox' = << Reply(msg.sender,
                          IF alert_to_delete # 0
                          THEN DeleteAlertResponse(TRUE, "Alert deleted successfully")
                          ELSE DeleteAlertResponse(FALSE, "Alert not found")) >>
  /\ inbox' = Tail(inbox)
  /\ UNCHANGED <<started, triggered_alerts, pending_alerts, subscribed_users, now>>
  /\ UNCHANGED historyVars
  /\ UNCHANGED <<flushes, gasVars, restVars>>

\* variant: the active_only flag is ignored
ListedAll(alert_list, symbol, active_only) ==
  LET SameSymbol(alert) == alert.symbol = symbol
  IN IF TruthyStr(symbol) THEN SelectSeq(alert_list, SameSymbol) ELSE alert_list

\* the two filters of handle_list_alerts: `if msg.symbol:`, then
\* `if msg.active_only:`
Listed(alert_list, symbol, active_only) ==
  LET SameSymbol(alert) == alert.symbol = symbol
      IsActive(alert) == alert.active
      by_symbol == IF TruthyStr(symbol) THEN SelectSeq(alert_list, SameSymbol)
                   ELSE alert_list
  IN IF active_only THEN SelectSeq(by_symbol, IsActive) ELSE by_symbol

handle_list_alerts ==
  /\ started
  /\ inbox # <<>>
  /\ IsListAlertsRequest(Head(inbox))
  /\ LET msg == Head(inbox)
     IN outbox' = << Reply(msg.sender,
                      ListAlertsResponse(Listed(alerts, msg.symbol, msg.active_only))) >>
  /\ inbox' = Tail(inbox)
  /\ UNCHANGED <<started, alerts, triggered_alerts, pending_alerts,
                 subscribed_users, now>>
  /\ UNCHANGED historyVars
  /\ UNCHANGED <<flushes, gasVars, restVars>>

\* the agent process ends; its storage file stays
stop ==
  /\ started
  /\ started' = FALSE
  /\ outbox' = <<>>
  /\ UNCHANGED <<alerts, triggered_alerts, pending_alerts, subscribed_users,
                 inbox, now>>
  /\ UNCHANGED historyVars
  /\ UNCHANGED <<flushes, gasVars, restVars>>

\* Rule store: a stored rule list, then requests and results in any order,
\* the agent stopping and starting again in between
StoreNext ==
  \/ startup
  \/ stop
  \/ handle_configure_alert
  \/ handle_delete_alert
  \/ handle_list_alerts
  \/ handle_analysis_result

StoredRuleLists ==
  { <<>>,
    <<AlertConfig("a1", "BTC", PRICE_ABOVE, 30, TRUE, Absent)>>,
    <<AlertConfig("a1", "BTC", PRICE_ABOVE, 30, FALSE, Absent),
      AlertConfig("a2", "ETH", PRICE_BELOW, 70, TRUE, Absent)>>,
    <<AlertConfig("a2", "BTC", TREND_REVERSAL, 0, TRUE, UP),
      AlertConfig("a3", "ETH", PRICE_ABOVE, 30, FALSE, Absent),
      AlertConfig("a1", "BTC", PRICE_BELOW, 70, TRUE, Absent)>> }

ConfiguredRules ==
  { AlertConfig("a1", "ETH", PRICE_BELOW, 70, TRUE, Absent),
    AlertConfig("a2", "BTC", PRICE_ABOVE, 30, FALSE, Absent),
    AlertConfig("a4", "BTC", RSI_OVERSOLD, 30, TRUE, Absent),
    AlertConfig("uuid1", "SOL", PRICE_ABOVE, 100, TRUE, Absent) }

StoreMsgs ==
  {ConfigureAlertRequest("user1", config) : config \in ConfiguredRules}
  \cup
  {DeleteAlertRequest("user1", id) : id \in {"a1", "a3", "uuid2"}}
  \cup
  {ListAlertsRequest("user1", symbol, active_only) :
      symbol \in {Absent, "", "BTC", "ETH"}, active_only \in BOOLEAN}
  \cup
  {AnalysisResult("BTC", 50, 50, 0, 0, DOWN)}

InitStore ==
  /\ started = FALSE
  /\ alerts \in StoredRuleLists
  /\ triggered_alerts = <<>>
  /\ pending_alerts = <<>>
  /\ subscribed_users = <<"user1">>
  /\ inbox \in SeqsUpTo(StoreMsgs, MaxStoreInbox)
  /\ now = 0
  /\ outbox = <<>>
  /\ HistoryIdle
  /\ FlushIdle
  /\ GasIdle
  /\ RestIdle

StoreSpec == InitStore /\ [][StoreNext]_vars

----------------------------------------------------------------------------
(* C15: configure appends or replaces in place *)

\* a request of the given kind is taken from the inbox by its handler
RequestStep(IsKind(_)) ==
  /\ started
  /\ inbox # <<>>
  /\ IsKind(Head(inbox))
  /\ inbox' = Tail(inbox)

\* the positions of the rule list that hold the id
Holding(alert_list, id) ==
  {i \in 1..Len(alert_list) : alert_list[i].alert_id = id}

\* the handler sent exactly one message, a reply to the request's sender
OneReply == Len(outbox') = 1 /\ outbox'[1].to = Head(inbox).sender

C15_ConfigureStep ==
  RequestStep(IsConfigureAlertRequest) =>
    LET config == Head(inbox).config
        held == Holding(alerts, config.alert_id)
    IN /\ held = {} =>
            /\ Len(alerts') = Len(alerts) + 1
            /\ alerts'[Len(alerts')] = config
            /\ \A j \in 1..Len(alerts) : alerts'[j] = alerts[j]
       /\ held # {} =>
            /\ Len(alerts') = Len(alerts)
            /\ \E i \in held :
                 /\ alerts'[i] = config
                 /\ \A j \in 1..Len(alerts) : j # i => alerts'[j] = alerts[j]
       /\ OneReply
       /\ outbox'[1].msg.success = TRUE
       /\ outbox'[1].msg.alert_id = config.alert_id

\* C15: handle_configure_alert appends a rule whose id is not in the store
\* (the store grows by one) and replaces, at the same position and with the
\* count unchanged, a rule whose id is in the store; either way it replies
\* success = true with the rule's id and the stored rule equals the one in
\* the request.
C15_ConfigureAppendsOrReplaces == [][C15_ConfigureStep]_vars

\* a2 has just been replaced at position 2 of a two-rule store
C15_Witness ==
  /\ Len(outbox) = 1
  /\ "success" \in DOMAIN outbox[1].msg
  /\ outbox[1].msg =
       ConfigureAlertResponse(TRUE, "a2", "Alert updated successfully")
  /\ Len(alerts) = 2
  /\ alerts[1].alert_id = "a1"
  /\ alerts[2] = AlertConfig("a2", "BTC", PRICE_ABOVE, 30, FALSE, Absent)

----------------------------------------------------------------------------
(* C16: delete *)

C16_DeleteStep ==
  RequestStep(IsDeleteAlertRequest) =>
    LET held == Holding(alerts, Head(inbox).alert_id)
    IN /\ OneReply
       /\ held # {} =>
            /\ outbox'[1].msg.success = TRUE
            /\ Len(alerts') = Len(alerts) - 1
            /\ Holding(alerts', Head(inbox).alert_id) = {}
            /\ \E i \in held :
                 /\ \A j \in 1..(i - 1) : alerts'[j] = alerts[j]
                 /\ \A j \in i..Len(alerts') : alerts'[j] = alerts[j + 1]
       /\ held = {} =>
            /\ outbox'[1].msg.success = FALSE
            /\ alerts' = alerts

\* C16: handle_delete_alert removes the rule whose id is in the store and
\* replies success = true; for an id that is not in the store it replies
\* success = false, completes without an error and leaves the store as it
\* was.
C16_DeleteRemovesOrReportsNotFound == [][C16_DeleteStep]_vars

\* a3 has just been deleted from the middle of a three-rule store
C16_Witness ==
  /\ Len(outbox) = 1
  /\ outbox[1].msg = DeleteAlertResponse(TRUE, "Alert deleted successfully")
  /\ Len(alerts) = 2
  /\ alerts[1].alert_id = "a2"
  /\ alerts[2].alert_id = "a1"

----------------------------------------------------------------------------
(* C17: ids are unique *)

\* C17: after any sequence of startup, configure, delete and analysis
\* passes no two rules of the store have the same id.
C17_UniqueIds ==
  \A i, j \in 1..Len(alerts) :
    alerts[i].alert_id = alerts[j].alert_id => i = j

\* the agent seeded its default rules and a configure request with the id
\* of the first default rule replaced that rule
C17_Witness ==
  /\ started
  /\ Len(alerts) = 3
  /\ alerts[1] = AlertConfig("uuid1", "SOL", PRICE_ABOVE, 100, TRUE, Absent)
  /\ alerts[2].alert_id = "uuid2"
  /\ alerts[3].alert_id = "uuid3"
  /\ inbox = <<>>

----------------------------------------------------------------------------
(* C18: list *)

\* the reply lists, in store order, the rules of the store that pass both
\* filters, where `unfiltered` are the requested symbols that select all
ListStep(unfiltered) ==
  RequestStep(IsListAlertsRequest) =>
    LET msg == Head(inbox)
        Wanted(alert) ==
          /\ msg.symbol \in unfiltered \/ alert.symbol = msg.symbol
          /\ msg.active_only => alert.active
    IN /\ OneReply
       /\ outbox'[1].msg.alerts = SelectSeq(alerts, Wanted)
       /\ alerts' = alerts

----------------------------------------------------------------------------
(* C19: the triggered-alert log *)

\* the i-th notification of a log written by earlier passes
StoredNotification(i) ==
  AlertNotification("uuid1", "BTC", PRICE_ABOVE, 81000, 80000,
                    <<"stored", i>>, i - MaxTriggered - 1)

\* logs left by earlier runs: empty, or at or just below the cap
StoredLogs ==
  {[i \in 1..n |-> StoredNotification(i)] :
      n \in {0, MaxTriggered - 1, MaxTriggered}}

\* rule lists: none stored (the defaults are seeded), or one with two rules
\* that the same BTC price fires
LogRuleLists ==
  { <<>>,
    <<AlertConfigCreate("uuid1", "BTC", PRICE_ABOVE, 80000),
      AlertConfigCreate("uuid2", "ETH", PRICE_BELOW, 1600),
      AlertConfigCreate("p1", "BTC", PRICE_ABOVE, 30)>> }

InitLog ==
  /\ started = FALSE
  /\ alerts \in LogRuleLists
  /\ triggered_alerts \in StoredLogs
  /\ pending_alerts = <<>>
  /\ subscribed_users \in {<<>>, <<"user1">>}
  /\ inbox \in SeqsUpTo(RetryMsgs, MaxLogInbox)
  /\ now = 0
  /\ outbox = <<>>
  /\ HistoryIdle
  /\ FlushIdle
  /\ GasIdle
  /\ RestIdle

LogSpec == InitLog /\ [][Next]_vars

\* the notification entered the queue with attempts = 0: it waits there with
\* no attempt counted, or the flush that ends the pass sent it to every
\* subscriber and it is delivered or waits with one attempt counted
EnqueuedFresh(notification) ==
  IF subscribed_users = <<>>
  THEN \E q \in 1..Len(pending_alerts') :
         pending_alerts'[q] = [alert |-> notification, attempts |-> 0]
  ELSE /\ \A u \in 1..Len(subscribed_users) :
            \E o \in 1..Len(outbox') :
              /\ outbox'[o].to = subscribed_users[u]
              /\ outbox'[o].msg = notification
       /\ \A q \in 1..Len(pending_alerts') :
            pending_alerts'[q].alert = notification =>
              pending_alerts'[q].attempts = 1

C19_LogStep ==
  /\ Len(triggered_alerts') <= MaxTriggered
  /\ PassStep =>
       LET firing == {i \in 1..Len(alerts) :
                        /\ Applies(alerts[i])
                        /\ FiringCondition(alerts[i], Head(inbox))}
           produced == Cardinality(firing)
           total == Len(triggered_alerts) + produced
           kept == Len(triggered_alerts') - produced
       IN /\ Len(triggered_alerts') =
               IF total > MaxTriggered THEN MaxTriggered ELSE total
          /\ \A n \in 1..kept :
               triggered_alerts'[n] =
                 triggered_alerts[Len(triggered_alerts) - kept + n]
          /\ \A i \in firing :
               \E n \in (kept + 1)..Len(triggered_alerts') :
                 /\ triggered_alerts'[n].alert_id = alerts[i].alert_id
                 /\ triggered_alerts'[n].timestamp = now
                 /\ EnqueuedFresh(triggered_alerts'[n])

\* C19: the triggered-alert log never holds more than 100 entries; a pass
\* leaves in it the most recent notifications in trigger order, the ones
\* it produced last and the oldest ones dropped first; and every
\* notification a pass produces is appended to the log and enters the
\* pending queue with attempts = 0.
C19_LogBoundedAndQueued == [][C19_LogStep]_vars

\* a log of 99 entries took the two notifications of one pass: the oldest
\* stored entry is gone, and the newest waits in the queue with attempts 0
C19_Witness ==
  /\ Len(triggered_alerts) = MaxTriggered
  /\ triggered_alerts[1] = StoredNotification(2)
  /\ triggered_alerts[MaxTriggered - 1].alert_id = "uuid1"
  /\ triggered_alerts[MaxTriggered].alert_id = "p1"
  /\ triggered_alerts[MaxTriggered].timestamp = now - 1
  /\ Len(pending_alerts) = 2
  /\ pending_alerts[2] =
       [alert |-> triggered_alerts[MaxTriggered], attempts |-> 0]

----------------------------------------------------------------------------
(* Indicators of the analysis agent                                        *)
(*                                                                         *)
(* Prices are whole numbers.  A float computed from them is a fixed-point  *)
(* number with Scale units to 1, rounded down after every division.        *)

Scale == 1000

ShortWindow == 5
LongWindow == 20
RsiWindow == 14
FastWindow == 12
SlowWindow == 26
SignalWindow == 9

BUY == "buy"
SELL == "sell"
HOLD == "hold"
STRONG == "strong"
MODERATE == "moderate"
WEAK == "weak"

RECURSIVE SumSeq(_)
SumSeq(xs) == IF xs = <<>> THEN 0 ELSE Head(xs) + SumSeq(Tail(xs))

\* xs[-n:] for 0 < n <= len(xs)
Latest(xs, n) == SubSeq(xs, Len(xs) - n + 1, Len(xs))

\* np.mean of a non-empty list of whole numbers
Mean(xs) == (SumSeq(xs) * Scale) \div Len(xs)

\* variant: both averages are taken over the short window
calculate_moving_averages_short(prices) ==
  LET short_window == IF Len(prices) < ShortWindow THEN Len(prices)
                      ELSE ShortWindow
      short_ma == IF short_window > 0 THEN Mean(Latest(prices, short_window))
                  ELSE prices[Len(prices)] * Scale
  IN <<short_ma, short_ma>>

calculate_moving_averages(prices) ==
  LET long_window == IF Len(prices) < LongWindow THEN Len(prices)
                     ELSE LongWindow
      short_window == IF Len(prices) < ShortWindow THEN Len(prices)
                      ELSE ShortWindow
      short_ma == IF short_window > 0 THEN Mean(Latest(prices, short_window))
                  ELSE prices[Len(prices)] * Scale
      long_ma == IF long_window > 0 THEN Mean(Latest(prices, long_window))
                 ELSE prices[Len(prices)] * Scale
  IN <<short_ma, long_ma>>

\* np.diff
Diff(prices) == [i \in 1..(Len(prices) - 1) |-> prices[i + 1] - prices[i]]

\* np.clip(xs, 0, None)
ClipLow(xs) == [i \in 1..Len(xs) |-> IF xs[i] < 0 THEN 0 ELSE xs[i]]

Negated(xs) == [i \in 1..Len(xs) |-> 0 - xs[i]]

\* variant: the neutral value is returned below `window` prices only
calculate_rsi_short(prices) ==
  IF Len(prices) < RsiWindow THEN 50 * Scale
  ELSE 100 * Scale

\* variant: a window without gains gives the neutral value
calculate_rsi_neutral(prices) ==
  IF Len(prices) < RsiWindow + 1 THEN 50 * Scale
  ELSE LET deltas == Diff(prices)
           gains == ClipLow(deltas)
           losses == ClipLow(Negated(deltas))
           avg_gain == Mean(Latest(gains, RsiWindow))
           avg_loss == Mean(Latest(losses, RsiWindow))
       IN IF avg_loss = 0 THEN 100 * Scale
          ELSE IF avg_gain = 0 THEN 50 * Scale
          ELSE LET rs == (avg_gain * Scale) \div avg_loss
               IN 100 * Scale - (100 * Scale * Scale) \div (Scale + rs)

calculate_rsi(prices) ==
  IF Len(prices) < RsiWindow + 1 THEN 50 * Scale
  ELSE LET deltas == Diff(prices)
           gains == ClipLow(deltas)
           losses == ClipLow(Negated(deltas))
           avg_gain == Mean(Latest(gains, RsiWindow))
           avg_loss == Mean(Latest(losses, RsiWindow))
       IN IF avg_loss = 0 THEN 100 * Scale
          ELSE LET rs == (avg_gain * Scale) \div avg_loss
               IN 100 * Scale - (100 * Scale * Scale) \div (Scale + rs)

\* one step of Series.ewm(span=span, adjust=False).mean() on fixed-point
\* numbers: y[t] = (1 - a) y[t-1] + a x[t] with a = 2 / (span + 1)
Ewm(span, previous, x) == ((span - 1) * previous + 2 * x) \div (span + 1)

\* row t of the data frame, <<ema_fast, ema_slow, macd, signal>>, column by
\* column from the row before it; the first row of every ewm column is the
\* value itself
SignalColumn(t, previous, ema_fast, ema_slow, macd) ==
  <<ema_fast, ema_slow, macd,
    IF t = 1 THEN macd ELSE Ewm(SignalWindow, previous[4], macd)>>

MacdColumn(t, previous, ema_fast, ema_slow) ==
  SignalColumn(t, previous, ema_fast, ema_slow, ema_fast - ema_slow)

EmaColumns(t, previous, price) ==
  MacdColumn(t, previous,
             IF t = 1 THEN price ELSE Ewm(FastWindow, previous[1], price),
             IF t = 1 THEN price ELSE Ewm(SlowWindow, previous[2], price))

\* the rows of the data frame of n prices, filled from the first price on
RECURSIVE MacdRows(_, _, _)
MacdRows(prices, n, rows) ==
  IF Len(rows) = n THEN rows
  ELSE MacdRows(prices, n,
         Append(rows,
                EmaColumns(Len(rows) + 1,
                           IF rows = <<>> THEN <<>> ELSE rows[Len(rows)],
                           prices[Len(rows) + 1] * Scale)))

calculate_macd(prices) ==
  IF Len(prices) < SlowWindow THEN <<0, 0>>
  ELSE LET last == MacdRows(prices, Len(prices), <<>>)[Len(prices)]
       IN <<last[3], last[4]>>

\* the exception of a float division by zero, in place of a returned value
ZeroDivisionError == "ZeroDivisionError"

\* recent_change > 0.01 and recent_change < -0.01 are compared exactly,
\* as 100 (last - previous) against the previous price, which is not
\* negative; dividing by a previous price of 0 raises
determine_trend(prices, short_ma, long_ma) ==
  IF Len(prices) < 2 THEN SIDEWAYS
  ELSE IF short_ma > long_ma THEN UP
  ELSE IF short_ma < long_ma THEN DOWN
  ELSE LET last == prices[Len(prices)]
           previous == prices[Len(prices) - 1]
       IN IF previous = 0 THEN ZeroDivisionError
          ELSE IF 100 * (last - previous) > previous THEN UP
          ELSE IF 100 * (last - previous) < 0 - previous THEN DOWN
          ELSE SIDEWAYS

\* variant: two votes of one side make a strong signal
generate_trading_signal_eager(trend, rsi, macd, signal) ==
  LET by_trend == IF trend = UP THEN <<1, 0>>
                  ELSE IF trend = DOWN THEN <<0, 1>> ELSE <<0, 0>>
      by_rsi == IF rsi < 30 * Scale THEN <<1, 0>>
                ELSE IF rsi > 70 * Scale THEN <<0, 1>> ELSE <<0, 0>>
      by_macd == IF macd > signal /\ macd > 0 THEN <<1, 0>>
                 ELSE IF macd < signal /\ macd < 0 THEN <<0, 1>>
                 ELSE <<0, 0>>
      buy_signals == by_trend[1] + by_rsi[1] + by_macd[1]
      sell_signals == by_trend[2] + by_rsi[2] + by_macd[2]
      signal_type == IF buy_signals > sell_signals THEN BUY
                     ELSE IF sell_signals > buy_signals THEN SELL ELSE HOLD
      signal_count == IF buy_signals > sell_signals THEN buy_signals
                      ELSE sell_signals
      signal_strength == IF signal_count >= 2 THEN STRONG
                         ELSE IF signal_count = 2 THEN MODERATE ELSE WEAK
  IN <<signal_type, signal_strength>>

\* variant: the strength counts the votes of both sides together
generate_trading_signal_total(trend, rsi, macd, signal) ==
  LET by_trend == IF trend = UP THEN <<1, 0>>
                  ELSE IF trend = DOWN THEN <<0, 1>> ELSE <<0, 0>>
      by_rsi == IF rsi < 30 * Scale THEN <<1, 0>>
                ELSE IF rsi > 70 * Scale THEN <<0, 1>> ELSE <<0, 0>>
      by_macd == IF macd > signal /\ macd > 0 THEN <<1, 0>>
                 ELSE IF macd < signal /\ macd < 0 THEN <<0, 1>>
                 ELSE <<0, 0>>
      buy_signals == by_trend[1] + by_rsi[1] + by_macd[1]
      sell_signals == by_trend[2] + by_rsi[2] + by_macd[2]
      signal_type == IF buy_signals > sell_signals THEN BUY
                     ELSE IF sell_signals > buy_signals THEN SELL ELSE HOLD
      signal_count == buy_signals + sell_signals
      signal_strength == IF signal_count >= 3 THEN STRONG
                         ELSE IF signal_count = 2 THEN MODERATE ELSE WEAK
  IN <<signal_type, signal_strength>>

generate_trading_signal(trend, rsi, macd, signal) ==
  LET by_trend == IF trend = UP THEN <<1, 0>>
                  ELSE IF trend = DOWN THEN <<0, 1>> ELSE <<0, 0>>
      by_rsi == IF rsi < 30 * Scale THEN <<1, 0>>
                ELSE IF rsi > 70 * Scale THEN <<0, 1>> ELSE <<0, 0>>
      by_macd == IF macd > signal /\ macd > 0 THEN <<1, 0>>
                 ELSE IF macd < signal /\ macd < 0 THEN <<0, 1>>
                 ELSE <<0, 0>>
      buy_signals == by_trend[1] + by_rsi[1] + by_macd[1]
      sell_signals == by_trend[2] + by_rsi[2] + by_macd[2]
      signal_type == IF buy_signals > sell_signals THEN BUY
                     ELSE IF sell_signals > buy_signals THEN SELL ELSE HOLD
      signal_count == IF buy_signals > sell_signals THEN buy_signals
                      ELSE sell_signals
      signal_strength == IF signal_count >= 3 THEN STRONG
                         ELSE IF signal_count = 2 THEN MODERATE ELSE WEAK
  IN <<signal_type, signal_strength>>

----------------------------------------------------------------------------
(* Price data and the price history *)

MaxHistory == 100

\* PRICE_AGENT_ADDRESS, ANALYSIS_AGENT_ADDRESS, ALERT_AGENT_ADDRESS and
\* USER_AGENT_ADDRESS of the environment, all set
PriceAgent == "price"
AnalysisAgent == "analysis"
AlertAgent == "alert"
UserAgent == "user1"

\* DEFAULT_CRYPTOCURRENCIES as a list
DefaultCryptos == <<"BTC", "ETH">>

\* the provider's quote of a symbol at a time
Quote(symbol, timestamp) ==
  100 + 5 * ((timestamp + (IF symbol = "BTC" THEN 0 ELSE 1)) % 3)

\* volume_24h, percent_change_24h and market_cap are copied along untouched
\* and left out
PriceData(symbol, price, timestamp) ==
  [symbol |-> symbol, price |-> price, timestamp |-> timestamp]

PriceRequest(sender, symbols) == [sender |-> sender, symbols |-> symbols]
PriceResponse(sender, prices, source, timestamp) ==
  [sender |-> sender, prices |-> prices, source |-> source,
   timestamp |-> timestamp]
PriceUpdate(sender, data) == [sender |-> sender, data |-> data]
AnalysisResponse(results) == [results |-> results]

IsPriceResponse(msg) == "prices" \in DOMAIN msg
IsPriceUpdate(msg) == "data" \in DOMAIN msg

\* the set of the entries of a list
Range(xs) == {xs[i] : i \in 1..Len(xs)}

\* the keys of a price dictionary, in the order of the symbol list
Keys(prices) ==
  LET Priced(symbol) == symbol \in DOMAIN prices
  IN SelectSeq(DefaultCryptos, Priced)

\* the entry appended to a history list
Point(price, timestamp) == [price |-> price, timestamp |-> timestamp]

\* variant: the list is never cut
AppendedUncapped(series, point) == Append(series, point)

\* variant: a full list gives up its newest entry
AppendedOverNewest(series, point) ==
  Append(FirstN(series, MaxHistory - 1), point)

\* append, then `if len(...) > 100: ... = ...[-100:]`
Appended(series, point) == LastN(Append(series, point), MaxHistory)

\* fetch_crypto_prices: the provider answers for any part of the symbols;
\* a failed request gives the empty dictionary
fetch_crypto_prices(symbols, timestamp) ==
  {[s \in known |-> PriceData(s, Quote(s, timestamp), timestamp)] :
     known \in SUBSET Range(symbols)}

----------------------------------------------------------------------------
(* Price agent *)

\* the messages a list of addresses makes the analysis agent receive
ToAnalysis(addresses, msgs) ==
  IF AnalysisAgent \in Range(addresses) THEN msgs ELSE <<>>

\* the sends of the broadcast loop: every update to every subscribed agent
RECURSIVE Broadcast(_, _)
Broadcast(addresses, msgs) ==
  IF addresses = <<>> THEN <<>>
  ELSE [i \in 1..Len(msgs) |-> Reply(Head(addresses), msgs[i])]
         \o Broadcast(Tail(addresses), msgs)

\* historical_data after the loop of update_prices
PriceRecorded(history, prices, timestamp) ==
  [s \in Symbols |->
     IF s \in DOMAIN prices
     THEN Appended(history[s], Point(prices[s].price, timestamp))
     ELSE history[s]]

\* variant: an empty result is handled like any other
FetchFailedNever(prices) == FALSE

\* `if not prices:` on the dictionary fetch_crypto_prices returned
FetchFailed(prices) == DOMAIN prices = {}

\* @price_agent.on_interval(period=UPDATE_INTERVAL)
update_prices ==
  /\ now < MaxClock
  /\ now' = now + 1
  /\ \E prices \in fetch_crypto_prices(DefaultCryptos, now) :
       IF FetchFailed(prices)
       THEN /\ outbox' = <<>>
            /\ UNCHANGED <<price_history, latest_prices, analysis_inbox>>
       ELSE LET response ==
                  PriceResponse(PriceAgent, prices, "CoinGecko", now)
                updates ==
                  [i \in 1..Len(Keys(prices)) |->
                     PriceUpdate(PriceAgent, prices[Keys(prices)[i]])]
            IN /\ price_history' = PriceRecorded(price_history, prices, now)
               /\ latest_prices' =
                    [present |-> TRUE, prices |-> prices,
                     source |-> "CoinGecko", timestamp |-> now]
               /\ analysis_inbox' =
                    analysis_inbox \o <<response>>
                      \o ToAnalysis(subscribed_agents, updates)
               /\ outbox' = <<Reply(AnalysisAgent, response)>>
                               \o Broadcast(subscribed_agents, updates)
  /\ UNCHANGED <<historical_data, analysis_results, analysis_started,
                 subscribed_agents, price_inbox>>
  /\ UNCHANGED alertVars
  /\ UNCHANGED <<flushes, gasVars, restVars>>

\* the cached prices of the requested symbols
Filtered(prices, symbols) ==
  [s \in DOMAIN prices \cap Range(symbols) |-> prices[s]]

\* the reply is served from latest_prices
ServedFromCache(msg) ==
  /\ latest_prices.present
  /\ Cardinality(DOMAIN Filtered(latest_prices.prices, msg.symbols)) =
       Len(msg.symbols)

\* @price_protocol.on_message(model=PriceRequest)
handle_price_request ==
  /\ price_inbox # <<>>
  /\ LET msg == Head(price_inbox)
     IN IF ServedFromCache(msg)
        THEN LET response ==
                   PriceResponse(PriceAgent,
                                 Filtered(latest_prices.prices, msg.symbols),
                                 latest_prices.source, latest_prices.timestamp)
             IN /\ analysis_inbox' =
                     analysis_inbox \o ToAnalysis(<<msg.sender>>, <<response>>)
                /\ outbox' = <<Reply(msg.sender, response)>>
                /\ now' = now
        ELSE /\ now < MaxClock
             /\ now' = now + 1
             /\ \E prices \in fetch_crypto_prices(msg.symbols, now) :
                  LET response ==
                        PriceResponse(PriceAgent, prices,
                                      IF DOMAIN prices # {} THEN "CoinGecko"
                                      ELSE "Error", now)
                  IN /\ analysis_inbox' =
                          analysis_inbox
                            \o ToAnalysis(<<msg.sender>>, <<response>>)
                     /\ outbox' = <<Reply(msg.sender, response)>>
  /\ price_inbox' = Tail(price_inbox)
  /\ UNCHANGED <<historical_data, analysis_results, analysis_started,
                 subscribed_agents, price_history, latest_prices>>
  /\ UNCHANGED alertVars
  /\ UNCHANGED <<flushes, gasVars, restVars>>

----------------------------------------------------------------------------
(* Analysis agent *)

\* prices = [entry["price"] for entry in historical_data[symbol]]
PricesOf(series) == [i \in 1..Len(series) |-> series[i].price]

\* analyze_price_data raises for a symbol with a history: determine_trend
\* is its only call that can
Raises(history, symbol) ==
  LET prices == PricesOf(history[symbol])
      ma == calculate_moving_averages(prices)
  IN determine_trend(prices, ma[1], ma[2]) = ZeroDivisionError

\* the symbols of a price message whose analysis is reached and returns:
\* those before the first one that raises
Returned(history, keys) ==
  {keys[i] : i \in {j \in 1..Len(keys) :
                      \A k \in 1..j : ~Raises(history, keys[k])}}

\* variant: the result carries the oldest price of the list
analyze_price_data_oldest(history, symbol, timestamp) ==
  LET prices == PricesOf(history[symbol])
      ma == calculate_moving_averages(prices)
      rsi == calculate_rsi(prices)
      macd == calculate_macd(prices)
      trend == determine_trend(prices, ma[1], ma[2])
      signal == generate_trading_signal(trend, rsi, macd[1], macd[2])
  IN [present |-> TRUE, symbol |-> symbol,
      current_price |-> prices[1], timestamp |-> timestamp,
      moving_avg_short |-> ma[1], moving_avg_long |-> ma[2], rsi |-> rsi,
      macd |-> macd[1], macd_signal |-> macd[2], trend |-> trend,
      signal |-> signal[1], signal_strength |-> signal[2]]

\* the AnalysisResult of analyze_price_data for a symbol with a history
analyze_price_data(history, symbol, timestamp) ==
  LET prices == PricesOf(history[symbol])
      ma == calculate_moving_averages(prices)
      rsi == calculate_rsi(prices)
      macd == calculate_macd(prices)
      trend == determine_trend(prices, ma[1], ma[2])
      signal == generate_trading_signal(trend, rsi, macd[1], macd[2])
  IN [present |-> TRUE, symbol |-> symbol,
      current_price |-> prices[Len(prices)], timestamp |-> timestamp,
      moving_avg_short |-> ma[1], moving_avg_long |-> ma[2], rsi |-> rsi,
      macd |-> macd[1], macd_signal |-> macd[2], trend |-> trend,
      signal |-> signal[1], signal_strength |-> signal[2]]

\* @analysis_agent.on_event("startup")
analysis_startup ==
  /\ ~analysis_started
  /\ analysis_started' = TRUE
  /\ price_inbox' =
       Append(price_inbox, PriceRequest(AnalysisAgent, DefaultCryptos))
  /\ outbox' =
       <<Reply(PriceAgent, PriceRequest(AnalysisAgent, DefaultCryptos))>>
  /\ UNCHANGED <<historical_data, analysis_results, analysis_inbox,
                 subscribed_agents, price_history, latest_prices, now>>
  /\ UNCHANGED alertVars
  /\ UNCHANGED <<flushes, gasVars, restVars>>

\* historical_data after the appends of one price message
Recorded(history, prices) ==
  [s \in Symbols |->
     IF s \in DOMAIN prices
     THEN Appended(history[s], Point(prices[s].price, prices[s].timestamp))
     ELSE history[s]]

\* analysis_results after the symbols of one price message were analysed
Analysed(results, history, prices, timestamp) ==
  [s \in Symbols |->
     IF s \in Returned(history, Keys(prices))
     THEN analyze_price_data(history, s, timestamp)
     ELSE results[s]]

\* @analysis_agent.on_message(model=PriceUpdate); no handler ever stores an
\* alert_agent_address, so the result is not sent on
handle_price_update ==
  /\ analysis_started
  /\ analysis_inbox # <<>>
  /\ IsPriceUpdate(Head(analysis_inbox))
  /\ LET price_data == Head(analysis_inbox).data
         prices == [s \in {price_data.symbol} |-> price_data]
         history == Recorded(historical_data, prices)
     IN /\ historical_data' = history
        /\ analysis_results' = Analysed(analysis_results, history, prices, now)
  /\ outbox' = <<>>
  /\ analysis_inbox' = Tail(analysis_inbox)
  /\ UNCHANGED <<analysis_started, subscribed_agents, price_history,
                 latest_prices, price_inbox, now>>
  /\ UNCHANGED alertVars
  /\ UNCHANGED <<flushes, gasVars, restVars>>

\* @analysis_agent.on_message(model=PriceResponse)
handle_price_response ==
  /\ analysis_started
  /\ analysis_inbox # <<>>
  /\ IsPriceResponse(Head(analysis_inbox))
  /\ LET msg == Head(analysis_inbox)
         history == Recorded(historical_data, msg.prices)
         results == Analysed(analysis_results, history, msg.prices, now)
         InReturned(s) == s \in Returned(history, Keys(msg.prices))
         keys == SelectSeq(Keys(msg.prices), InReturned)
         sent == [i \in 1..Len(keys) |-> Reply(AlertAgent, results[keys[i]])]
     IN /\ historical_data' = history
        /\ analysis_results' = results
        /\ outbox' =
             IF /\ keys # <<>>
                /\ keys = Keys(msg.prices)
                /\ msg.sender = UserAgent
             THEN sent \o <<Reply(msg.sender,
                    AnalysisResponse([i \in 1..Len(keys) |-> results[keys[i]]]))>>
             ELSE sent
  /\ analysis_inbox' = Tail(analysis_inbox)
  /\ UNCHANGED <<analysis_started, subscribed_agents, price_history,
                 latest_prices, price_inbox, now>>
  /\ UNCHANGED alertVars
  /\ UNCHANGED <<flushes, gasVars, restVars>>

\* @analysis_protocol.on_message(model=AnalysisRequest), the request coming
\* from the user agent for any symbol
handle_analysis_request ==
  /\ analysis_started
  /\ \E symbol \in Symbols :
       IF historical_data[symbol] = <<>>
       THEN /\ Len(price_inbox) + Len(analysis_inbox) < MaxRequests
            /\ price_inbox' =
                 Append(price_inbox, PriceRequest(AnalysisAgent, <<symbol>>))
            /\ outbox' =
                 <<Reply(PriceAgent, PriceRequest(AnalysisAgent, <<symbol>>)),
                   Reply(UserAgent, AnalysisResponse(<<>>))>>
       ELSE /\ outbox' =
                 IF Raises(historical_data, symbol) THEN <<>>
                 ELSE <<Reply(UserAgent, AnalysisResponse(
                          <<analyze_price_data(historical_data, symbol,
                                               now)>>))>>
            /\ UNCHANGED price_inbox
  /\ UNCHANGED <<historical_data, analysis_results, analysis_inbox,
                 analysis_started, subscribed_agents, price_history,
                 latest_prices, now>>
  /\ UNCHANGED alertVars
  /\ UNCHANGED <<flushes, gasVars, restVars>>

----------------------------------------------------------------------------
(* History: the price feed into the analysis agent, from stored histories *)

HistoryNext ==
  \/ analysis_startup
  \/ update_prices
  \/ handle_price_update
  \/ handle_price_response

\* the alert agent holds nothing, receives nothing and is not started
AlertIdle ==
  /\ started = FALSE
  /\ alerts = <<>>
  /\ triggered_alerts = <<>>
  /\ pending_alerts = <<>>
  /\ subscribed_users = <<>>
  /\ inbox = <<>>

\* a history list of n entries written by earlier runs
StoredSeries(n) ==
  [i \in 1..n |-> Point(Quote("BTC", i), i - n - 1)]

\* what earlier runs left in the storage of the two agents: the lengths of
\* the analysis agent's lists of BTC and ETH (none, and just below the RSI
\* window, the MACD window and the cap), the subscriber list of the price
\* agent, which no handler writes, and the length of its own lists
StoredRuns ==
  {[lengths |-> <<0, 0>>, agents |-> <<>>, priced |-> 0],
   [lengths |-> <<13, 0>>, agents |-> <<AnalysisAgent>>, priced |-> 0],
   [lengths |-> <<24, 13>>, agents |-> <<>>, priced |-> 99],
   [lengths |-> <<99, 24>>, agents |-> <<AnalysisAgent>>, priced |-> 99]}

StoredHistory(lengths) ==
  [s \in Symbols |-> StoredSeries(IF s = "BTC" THEN lengths[1] ELSE lengths[2])]

\* the results stored with a history: one for every symbol that has one
StoredResults(history) ==
  [s \in Symbols |->
     IF history[s] = <<>> \/ Raises(history, s) THEN NoResult
     ELSE analyze_price_data(history, s, -1)]

\* the prices cached with a history of the price agent: its latest entries
StoredPrices(history) ==
  LET known == {s \in Symbols : history[s] # <<>>}
  IN IF known = {} THEN NoPrices
     ELSE [present |-> TRUE,
           prices |-> [s \in known |->
                         PriceData(s, history[s][Len(history[s])].price, -1)],
           source |-> "CoinGecko", timestamp |-> -1]

InitHistory ==
  /\ AlertIdle
  /\ FlushIdle
  /\ GasIdle
  /\ RestIdle
  /\ now = 0
  /\ outbox = <<>>
  /\ \E run \in StoredRuns :
       /\ historical_data = StoredHistory(run.lengths)
       /\ subscribed_agents = run.agents
       /\ price_history = StoredHistory(<<run.priced, run.priced>>)
  /\ analysis_results = StoredResults(historical_data)
  /\ analysis_inbox = <<>>
  /\ analysis_started = FALSE
  /\ latest_prices = StoredPrices(price_history)
  /\ price_inbox = <<>>

HistorySpec == InitHistory /\ [][HistoryNext]_vars

----------------------------------------------------------------------------
(* Requests: both agents from a first run, with price and analysis requests *)

PriceNext ==
  \/ analysis_startup
  \/ update_prices
  \/ handle_price_request
  \/ handle_price_response
  \/ handle_analysis_request

InitPrice ==
  /\ AlertIdle
  /\ HistoryIdle
  /\ FlushIdle
  /\ GasIdle
  /\ RestIdle
  /\ now = 0
  /\ outbox = <<>>

PriceSpec == InitPrice /\ [][PriceNext]_vars

----------------------------------------------------------------------------
(* C12: no history list is longer than 100 *)

\* C12: in every reachable state, whatever PriceUpdate and PriceResponse
\* messages were processed and whatever the price agent fetched, every list
\* of historical_data and every list of price_history has at most 100
\* entries.
C12_HistoryBounded ==
  \A s \in Symbols :
    /\ Len(historical_data[s]) <= MaxHistory
    /\ Len(price_history[s]) <= MaxHistory

\* a list of each agent was full, got one more point and is at 100 entries
C12_Witness ==
  \E s \in Symbols :
    /\ Len(historical_data[s]) = MaxHistory
    /\ historical_data[s][1].timestamp = 1 - MaxHistory
    /\ historical_data[s][MaxHistory].timestamp >= 0
    /\ Len(price_history[s]) = MaxHistory
    /\ price_history[s][1].timestamp = 1 - MaxHistory
    /\ price_history[s][MaxHistory].timestamp >= 0

----------------------------------------------------------------------------
(* C13: the oldest point goes first *)

\* the point a price message carries for a symbol
Carried(msg, s) ==
  IF IsPriceUpdate(msg) THEN Point(msg.data.price, msg.data.timestamp)
  ELSE Point(msg.prices[s].price, msg.prices[s].timestamp)

\* the symbols a price message carries a point for
CarriedSymbols(msg) ==
  IF IsPriceUpdate(msg) THEN {msg.data.symbol} ELSE DOMAIN msg.prices

\* a step in which the analysis agent takes the price message at the head of
\* its inbox: the list of every symbol the message carries a point for is
\* the old list followed by the point when the old list had fewer than 100
\* entries, and is the old list without its first entry followed by the
\* point when it had 100; every other list is unchanged
C13_AppendStep ==
  (/\ analysis_started
   /\ analysis_inbox # <<>>
   /\ analysis_inbox' = Tail(analysis_inbox))
    => LET msg == Head(analysis_inbox)
       IN \A s \in Symbols :
            IF s \in CarriedSymbols(msg)
            THEN /\ Len(historical_data'[s]) =
                      (IF Len(historical_data[s]) < MaxHistory
                       THEN Len(historical_data[s]) + 1 ELSE MaxHistory)
                 /\ historical_data'[s][Len(historical_data'[s])] =
                      Carried(msg, s)
                 /\ \A i \in 1..(Len(historical_data'[s]) - 1) :
                      historical_data'[s][i] =
                        historical_data[s]
                          [i + Len(historical_data[s]) + 1
                             - Len(historical_data'[s])]
            ELSE historical_data'[s] = historical_data[s]

\* C13: appending a point to a list of 100 points removes exactly the oldest
\* point and puts the new point last, and appending to a shorter list only
\* adds the point, so that a list always is the last min(n, 100) of the n
\* points received for its symbol, in arrival order.
C13_OldestEvictedFirst == [][C13_AppendStep]_vars

\* a list that was full took points from messages: its first stored points
\* are gone, the points of this run are last
C13_Witness ==
  \E s \in Symbols :
    /\ Len(historical_data[s]) = MaxHistory
    /\ historical_data[s][1].timestamp > 1 - MaxHistory
    /\ historical_data[s][MaxHistory - 1].timestamp >= 0

----------------------------------------------------------------------------
(* C14: the order of the timestamps *)

\* C14: in every list of historical_data the timestamps never decrease from
\* one entry to the next, after any broadcasts, cached replies and
\* fresh-fetch replies of the price agent.
C14_TimestampsNonDecreasing ==
  \A s \in Symbols :
    \A i \in 1..(Len(historical_data[s]) - 1) :
      historical_data[s][i].timestamp <= historical_data[s][i + 1].timestamp

----------------------------------------------------------------------------
(* C20: the neutral values below the windows *)

\* the first n entries of a list
FirstPrices(prices, n) == [i \in 1..n |-> prices[i]]

Smaller(a, b) == IF a < b THEN a ELSE b

\* C20: for the empty list and every longer beginning of every stored price
\* list, calculate_rsi gives 50 on fewer than 15 prices and calculate_macd
\* gives (0, 0) on fewer than 26 prices, and the result stored for a symbol
\* with fewer than 15 (26) prices carries that rsi (macd and signal line).
C20_NeutralBelowWindow ==
  \A s \in Symbols :
    LET prices == PricesOf(historical_data[s])
        n == Len(historical_data[s])
    IN /\ \A k \in 0..Smaller(n, RsiWindow) :
            calculate_rsi(FirstPrices(prices, k)) = 50 * Scale
       /\ \A k \in 0..Smaller(n, SlowWindow - 1) :
            calculate_macd(FirstPrices(prices, k)) = <<0, 0>>
       /\ (analysis_results[s].present /\ n < RsiWindow + 1)
            => analysis_results[s].rsi = 50 * Scale
       /\ (analysis_results[s].present /\ n < SlowWindow)
            => /\ analysis_results[s].macd = 0
               /\ analysis_results[s].macd_signal = 0

\* a list of exactly 14 prices and one of exactly 25 were analysed in this
\* run and gave the neutral values
C20_Witness ==
  /\ Len(historical_data["ETH"]) = RsiWindow
  /\ analysis_results["ETH"].present
  /\ analysis_results["ETH"].timestamp >= 0
  /\ analysis_results["ETH"].rsi = 50 * Scale
  /\ Len(historical_data["BTC"]) = SlowWindow - 1
  /\ analysis_results["BTC"].present
  /\ analysis_results["BTC"].timestamp >= 0
  /\ analysis_results["BTC"].macd = 0
  /\ analysis_results["BTC"].macd_signal = 0

\* the stores and queues a tick of update_prices may write
FetchWritten == <<price_history, latest_prices, analysis_inbox>>

\* C26: a tick of update_prices whose fetch yields no prices changes neither
\* the stored history nor the stored latest prices and sends no message; a
\* tick writes only when it stores a non-empty fetch of its own time.  The
\* timer is not stopped: the tick after a failed one fetches again
C26_FetchStep ==
  now' = now + 1 =>
    \/ /\ FetchWritten' = FetchWritten
       /\ outbox' = <<>>
       /\ analysis_started' = analysis_started
       /\ subscribed_agents' = subscribed_agents
    \/ /\ latest_prices'.present
       /\ DOMAIN latest_prices'.prices # {}
       /\ latest_prices'.timestamp = now
       /\ outbox' # <<>>

C26_FailedFetchSkipsCycle == [][C26_FetchStep]_vars

\* the tick at time 0 failed on a stored history and left it as it was, and
\* the tick at time 1 fetched and stored prices
C26_Witness ==
  /\ now = 2
  /\ latest_prices.present
  /\ latest_prices.timestamp = 1
  /\ \E s \in Symbols :
       /\ Len(price_history[s]) > 1
       /\ price_history[s][Len(price_history[s])].timestamp = 1
       /\ price_history[s][Len(price_history[s]) - 1].timestamp < 0

----------------------------------------------------------------------------
(* Indicators: the analysis agent fed with price lists of several shapes *)

IndicatorNext ==
  \/ analysis_startup
  \/ handle_price_update
  \/ handle_price_response

\* a history list holding the given prices, written by earlier runs
SeriesOf(prices) ==
  [i \in 1..Len(prices) |-> Point(prices[i], i - Len(prices) - 1)]

Rising(n) == [i \in 1..n |-> 10 * i]
Falling(n) == [i \in 1..n |-> 1000 - 10 * i]
Flat(n) == [i \in 1..n |-> 100]
Stepped(n) == [i \in 1..n |-> i + 5 * (i \div 4)]
Zigzag(n) == [i \in 1..n |-> 100 + 7 * (i % 3) - 2 * (i % 2)]

\* the stored price lists of BTC: none, one price, and lists that end just
\* below or at 20 prices, the RSI window and the MACD window
StoredShapes ==
  {<<>>, <<0>>, <<100>>, Rising(18), Rising(19), Stepped(18), Stepped(19),
   Falling(19), Flat(14), Flat(19), Zigzag(15), Zigzag(26)}

\* the prices of the messages that arrive
FeedPrices == {0, 98, 100, 102, 185, 200}

\* a PriceUpdate for BTC at every price, and a PriceResponse for both
\* symbols at two of them
FeedMsgs ==
  {PriceUpdate(PriceAgent, PriceData("BTC", price, 0)) :
     price \in FeedPrices}
    \cup
  {PriceResponse(PriceAgent,
                 [s \in Symbols |-> PriceData(s, price, 0)],
                 "CoinGecko", 0) : price \in {100, 200}}

InitIndicator ==
  /\ AlertIdle
  /\ FlushIdle
  /\ GasIdle
  /\ RestIdle
  /\ now = 0
  /\ outbox = <<>>
  /\ \E prices \in StoredShapes :
       historical_data =
         [s \in Symbols |-> IF s = "BTC" THEN SeriesOf(prices) ELSE <<>>]
  /\ analysis_results = StoredResults(historical_data)
  /\ analysis_inbox \in SeqsUpTo(FeedMsgs, MaxFeedInbox)
  /\ analysis_started = FALSE
  /\ subscribed_agents = <<>>
  /\ price_history = NoHistory
  /\ latest_prices = NoPrices
  /\ price_inbox = <<>>

IndicatorSpec == InitIndicator /\ [][IndicatorNext]_vars

\* the price list of a symbol as the handlers pass it to the indicators
PricesIn(s) == PricesOf(historical_data[s])

\* the last `window` differences of a price list
LastDeltas(prices) == Latest(Diff(prices), RsiWindow)

\* C21: for every price list of at least window + 1 entries calculate_rsi
\* returns a value from 0 to 100; it returns 100 when the last `window`
\* differences hold no loss, and 0 when they hold no gain but some loss
C21_RsiRange ==
  \A s \in Symbols :
    Len(PricesIn(s)) >= RsiWindow + 1 =>
      LET deltas == LastDeltas(PricesIn(s))
          rsi == calculate_rsi(PricesIn(s))
      IN /\ rsi >= 0
         /\ rsi <= 100 * Scale
         /\ (\A i \in 1..RsiWindow : deltas[i] >= 0) => rsi = 100 * Scale
         /\ ((\A i \in 1..RsiWindow : deltas[i] <= 0)
               /\ (\E i \in 1..RsiWindow : deltas[i] < 0)) => rsi = 0

\* a handler has analysed a list whose last window holds losses only, and
\* stored the RSI of 0
C21_Witness ==
  \E s \in Symbols :
    /\ Len(PricesIn(s)) >= RsiWindow + 1
    /\ historical_data[s][Len(historical_data[s])].timestamp = 0
    /\ \A i \in 1..RsiWindow : LastDeltas(PricesIn(s))[i] < 0
    /\ analysis_results[s].present
    /\ analysis_results[s].timestamp = 0
    /\ analysis_results[s].rsi = 0

StrictlyIncreasing(prices) ==
  \A i \in 1..(Len(prices) - 1) : prices[i] < prices[i + 1]

\* C22: for every series of 20 increasing prices calculate_moving_averages
\* returns a short average above the long average and determine_trend
\* returns UP
C22_RisingSeriesIsUp ==
  \A s \in Symbols :
    (Len(PricesIn(s)) = LongWindow /\ StrictlyIncreasing(PricesIn(s)))
      => LET ma == calculate_moving_averages(PricesIn(s))
         IN /\ ma[1] > ma[2]
            /\ determine_trend(PricesIn(s), ma[1], ma[2]) = UP
            /\ analysis_results[s].present
            /\ analysis_results[s].trend = UP

\* a handler has appended the 20th price of an increasing series that is
\* not evenly spaced, and stored its result
C22_Witness ==
  \E s \in Symbols :
    /\ Len(PricesIn(s)) = LongWindow
    /\ StrictlyIncreasing(PricesIn(s))
    /\ historical_data[s][LongWindow].timestamp = 0
    /\ PricesIn(s)[LongWindow] - PricesIn(s)[LongWindow - 1]
         # PricesIn(s)[2] - PricesIn(s)[1]
    /\ analysis_results[s].timestamp = 0
    /\ analysis_results[s].trend = UP

\* the trend of a price list as analyze_price_data asks for it
TrendOf(prices) ==
  LET ma == calculate_moving_averages(prices)
  IN determine_trend(prices, ma[1], ma[2])

\* C23: for every price list determine_trend returns one of the three
\* trends: SIDEWAYS below 2 prices, UP or DOWN when the averages differ, and
\* by the last relative change when they are equal
C23_TrendDecided ==
  \A s \in Symbols :
    PricesIn(s) # <<>> =>
      LET prices == PricesIn(s)
          ma == calculate_moving_averages(prices)
          trend == determine_trend(prices, ma[1], ma[2])
      IN /\ trend \in {UP, DOWN, SIDEWAYS}
         /\ Len(prices) < 2 => trend = SIDEWAYS
         /\ (Len(prices) >= 2 /\ ma[1] > ma[2]) => trend = UP
         /\ (Len(prices) >= 2 /\ ma[1] < ma[2]) => trend = DOWN

\* the votes of one indicator, counted apart from the function
BuyVoters(trend, rsi, macd, signal) ==
  {voter \in {"trend", "rsi", "macd"} :
     \/ voter = "trend" /\ trend = UP
     \/ voter = "rsi" /\ rsi < 30 * Scale
     \/ voter = "macd" /\ macd > signal /\ macd > 0}

SellVoters(trend, rsi, macd, signal) ==
  {voter \in {"trend", "rsi", "macd"} :
     \/ voter = "trend" /\ trend = DOWN
     \/ voter = "rsi" /\ ~(rsi < 30 * Scale) /\ rsi > 70 * Scale
     \/ voter = "macd" /\ ~(macd > signal /\ macd > 0)
                       /\ macd < signal /\ macd < 0}

Voted(buy, sell) ==
  <<IF buy > sell THEN BUY ELSE IF sell > buy THEN SELL ELSE HOLD,
    IF buy >= 3 \/ sell >= 3 THEN STRONG
    ELSE IF buy = 2 \/ sell = 2 THEN MODERATE ELSE WEAK>>

Votes(trend, rsi, macd, signal) ==
  Voted(Cardinality(BuyVoters(trend, rsi, macd, signal)),
        Cardinality(SellVoters(trend, rsi, macd, signal)))

\* indicator values on both sides of every comparison of the function
RsiGrid == {30 * Scale - 1, 30 * Scale, 70 * Scale, 70 * Scale + 1}
MacdGrid == {0 - 1, 0, 1}

\* C24: generate_trading_signal counts one vote each from the trend, the RSI
\* and the MACD, returns BUY, SELL or HOLD by the larger count and the
\* strength by the larger count (3 STRONG, 2 MODERATE, else WEAK); every
\* stored result carries the signal of its own four indicator values
C24_SignalCountsVotes ==
  /\ \A trend \in {UP, DOWN, SIDEWAYS}, rsi \in RsiGrid,
        macd \in MacdGrid, signal \in MacdGrid :
       generate_trading_signal(trend, rsi, macd, signal)
         = Votes(trend, rsi, macd, signal)
  /\ \A s \in Symbols :
       analysis_results[s].present =>
         <<analysis_results[s].signal, analysis_results[s].signal_strength>>
           = Votes(analysis_results[s].trend, analysis_results[s].rsi,
                   analysis_results[s].macd, analysis_results[s].macd_signal)

\* a handler has stored a result in which the trend and the MACD vote to
\* buy and the RSI votes to sell
C24_Witness ==
  \E s \in Symbols :
    /\ analysis_results[s].present
    /\ analysis_results[s].timestamp = 0
    /\ analysis_results[s].trend = UP
    /\ analysis_results[s].rsi > 70 * Scale
    /\ analysis_results[s].macd > analysis_results[s].macd_signal
    /\ analysis_results[s].macd > 0
    /\ analysis_results[s].signal = BUY
    /\ analysis_results[s].signal_strength = MODERATE

\* the symbols of a price message, in the order the handler takes them
SymbolsOf(msg) ==
  IF IsPriceUpdate(msg) THEN <<msg.data.symbol>> ELSE Keys(msg.prices)

\* C29: after handle_price_update or handle_price_response has completed
\* for a symbol, the result store holds the result of this run for that
\* symbol (one per symbol, the store being keyed by symbol), whose
\* current_price is the price of the last point of the symbol's history
C29_HandlerStep ==
  (analysis_inbox # <<>> /\ analysis_inbox' = Tail(analysis_inbox)) =>
    \A s \in Returned(historical_data', SymbolsOf(Head(analysis_inbox))) :
      /\ analysis_results'[s].present
      /\ analysis_results'[s].symbol = s
      /\ analysis_results'[s].timestamp = now
      /\ analysis_results'[s].current_price =
           historical_data'[s][Len(historical_data'[s])].price

C29_LatestResultStored == [][C29_HandlerStep]_vars

\* a handler has appended a price that differs from the one before it and
\* from the oldest one, and stored the result of the longer list
C29_Witness ==
  \E s \in Symbols :
    /\ Len(historical_data[s]) >= 2
    /\ historical_data[s][Len(historical_data[s])].timestamp = 0
    /\ historical_data[s][Len(historical_data[s])].price
         # historical_data[s][Len(historical_data[s]) - 1].price
    /\ historical_data[s][Len(historical_data[s])].price
         # historical_data[s][1].price
    /\ analysis_results[s].present
    /\ analysis_results[s].timestamp = 0
    /\ analysis_results[s].current_price =
         historical_data[s][Len(historical_data[s])].price

\* C30: a pass writes the previous_trend of a TREND_REVERSAL rule only when
\* the rule fires in it; a rule stored without previous_trend does not fire
\* and is left without one, whatever trend the pass evaluates
C30_PassStep ==
  PassStep =>
    \A i \in 1..Len(alerts) :
      /\ alerts'[i].alert_id = alerts[i].alert_id
      /\ alerts[i].alert_type = TREND_REVERSAL =>
           /\ alerts'[i].previous_trend # alerts[i].previous_trend =>
                \E n \in 1..Len(NewTriggered) :
                  /\ NewTriggered[n].alert_id = alerts[i].alert_id
                  /\ NewTriggered[n].alert_type = TREND_REVERSAL
           /\ alerts[i].previous_trend = Absent =>
                /\ alerts'[i].previous_trend = Absent
                /\ \A n \in 1..Len(NewTriggered) :
                     NewTriggered[n].alert_id # alerts[i].alert_id

C30_TrendWrittenOnlyOnFiring == [][C30_PassStep]_vars

\* three passes were evaluated against a rule stored without
\* previous_trend: nothing was logged and the rule is as it was stored
C30_Witness ==
  /\ started
  /\ inbox = <<>>
  /\ now >= MaxTrendPasses
  /\ alerts = <<AlertConfig("t1", "BTC", TREND_REVERSAL, 0, TRUE, Absent)>>
  /\ triggered_alerts = <<>>

----------------------------------------------------------------------------
(* The flush at its suspension points: every `await ctx.send` of
   send_pending_alerts hands control back to the event loop, where the
   interval timer runs as a task of its own next to the message handlers *)

Handler == "handle_analysis_result"
Timer == "retry_pending_alerts"

\* variant: the next message is handled while a handler is suspended
NoHandlerSuspendedUnchecked == TRUE

\* a message handler is awaited to its end before the next message is taken
NoHandlerSuspended == flushes[Handler].pc = "idle"

\* the list a flush iterates: storage.get returned the stored list itself,
\* so the flush sees the appends made to it until another list is stored
FlushList(caller) ==
  IF flushes[caller].attached THEN pending_alerts
  ELSE flushes[caller].pending_alerts

\* alert_data["attempts"] += 1, seen in every list that holds the entry
Bumped(queue, alert) ==
  [i \in 1..Len(queue) |->
     IF queue[i].alert = alert
     THEN [queue[i] EXCEPT !.attempts = queue[i].attempts + 1]
     ELSE queue[i]]

BumpedIn(flush, alert) ==
  [flush EXCEPT !.pending_alerts = Bumped(flush.pending_alerts, alert),
                !.remaining_alerts = Bumped(flush.remaining_alerts, alert)]

\* a flush that has read a non-empty queue and is in its first send
FirstSend(configs) ==
  [pc |-> "sending", pending_alerts |-> <<>>, attached |-> TRUE, entry |-> 1,
   user |-> 1, success |-> TRUE, remaining_alerts |-> <<>>,
   alert_configs |-> configs]

\* the other flush once `stored` is no longer the stored list
Detached(flush, stored) ==
  IF flush.attached
  THEN [flush EXCEPT !.attached = FALSE, !.pending_alerts = stored]
  ELSE flush

\* the timer fires, the 30 seconds of its period having passed:
\* send_pending_alerts up to its first send
retry_pending_alerts_starts ==
  /\ started
  /\ flushes[Timer].pc = "idle"
  /\ now < MaxFlushClock
  /\ now' = now + 1
  /\ flushes' =
       IF pending_alerts = <<>> \/ subscribed_users = <<>> THEN flushes
       ELSE [flushes EXCEPT ![Timer] = FirstSend(<<>>)]
  /\ outbox' = <<>>
  /\ UNCHANGED <<started, alerts, triggered_alerts, pending_alerts,
                 subscribed_users, inbox>>
  /\ UNCHANGED historyVars
  /\ UNCHANGED <<gasVars, restVars>>

\* handle_analysis_result up to the first send of its flush, or to its end
\* when nothing fired or the flush returns at once
handle_analysis_result_starts ==
  /\ started
  /\ inbox # <<>>
  /\ IsAnalysisResult(Head(inbox))
  /\ NoHandlerSuspended
  /\ LET msg == Head(inbox)
         triggered == TriggeredBy(msg, alerts, now)
         alert_configs == AlertsAfterCheck(msg, alerts)
     IN IF triggered = <<>>
        THEN /\ alerts' = alert_configs
             /\ UNCHANGED <<triggered_alerts, pending_alerts, flushes>>
        ELSE /\ triggered_alerts' =
                  LastN(triggered_alerts \o triggered, MaxTriggered)
             /\ pending_alerts' = pending_alerts \o PendingEntries(triggered)
             /\ IF subscribed_users = <<>>
                THEN /\ alerts' = alert_configs
                     /\ UNCHANGED flushes
                ELSE /\ alerts' = alerts
                     /\ flushes' =
                          [flushes EXCEPT ![Handler] = FirstSend(alert_configs)]
  /\ outbox' = <<>>
  /\ inbox' = Tail(inbox)
  /\ now' = now + 1
  /\ UNCHANGED <<started, subscribed_users>>
  /\ UNCHANGED historyVars
  /\ UNCHANGED <<gasVars, restVars>>

\* the flush of `caller` after the send it awaited returned (ok) or raised:
\* on to the next user, to the next entry, or to the end of the flush, where
\* the remaining list is stored and the handler stores its rule list
send_returns(caller, ok) ==
  /\ flushes[caller].pc = "sending"
  /\ LET flush == flushes[caller]
         other == CHOOSE c \in Callers : c # caller
         queue == FlushList(caller)
         alert_data == queue[flush.entry]
         success == flush.success /\ ok
         last_user == flush.user = Len(subscribed_users)
         failed == last_user /\ ~success
         remaining_alerts ==
           IF last_user
           THEN Bumped(flush.remaining_alerts, alert_data.alert)
                  \o EntryRemaining(alert_data, <<subscribed_users[flush.user]>>,
                                    <<success>>)
           ELSE flush.remaining_alerts
         stored == IF failed THEN Bumped(pending_alerts, alert_data.alert)
                   ELSE pending_alerts
         others == IF failed THEN BumpedIn(flushes[other], alert_data.alert)
                   ELSE flushes[other]
     IN /\ outbox' = <<[to |-> subscribed_users[flush.user],
                        msg |-> alert_data.alert, ok |-> ok]>>
        /\ IF ~last_user
           THEN /\ flushes' = [flushes EXCEPT ![caller].user = flush.user + 1,
                                             ![caller].success = success]
                /\ UNCHANGED <<pending_alerts, alerts>>
           ELSE IF flush.entry < Len(queue)
           THEN /\ flushes' =
                     [c \in Callers |->
                        IF c = caller
                        THEN [BumpedIn(flush, alert_data.alert) EXCEPT
                                !.entry = flush.entry + 1, !.user = 1,
                                !.success = TRUE,
                                !.remaining_alerts = remaining_alerts]
                        ELSE others]
                /\ pending_alerts' = stored
                /\ UNCHANGED alerts
           ELSE /\ flushes' =
                     [c \in Callers |->
                        IF c = caller THEN NoFlush
                        ELSE Detached(others, stored)]
                /\ pending_alerts' = remaining_alerts
                /\ alerts' = IF caller = Handler THEN flush.alert_configs
                             ELSE alerts
  /\ UNCHANGED <<started, triggered_alerts, subscribed_users, inbox, now>>
  /\ UNCHANGED historyVars
  /\ UNCHANGED <<gasVars, restVars>>

FlushNext ==
  \/ startup
  \/ retry_pending_alerts_starts
  \/ handle_analysis_result_starts
  \/ \E caller \in Callers, ok \in BOOLEAN : send_returns(caller, ok)
  \/ NoHandlerSuspended /\ handle_configure_alert
  \/ NoHandlerSuspended /\ handle_delete_alert

\* the stored rules: a price rule and a trend rule for BTC
FlushRules ==
  <<AlertConfig("a1", "BTC", PRICE_ABOVE, 60, TRUE, Absent),
    AlertConfig("a2", "BTC", TREND_REVERSAL, 0, TRUE, UP)>>

\* the stored queue: empty, or one notification of an earlier run
StoredQueues ==
  {<<>>,
   PendingEntries(<<AlertNotification("a1", "BTC", PRICE_ABOVE, 70, 60,
                                      <<>>, -1)>>)}

FlushMsgs ==
  {AnalysisResult("BTC", 50, 50, 0, 0, DOWN),
   ConfigureAlertRequest("user1",
     AlertConfig("a1", "BTC", PRICE_ABOVE, 40, TRUE, Absent)),
   ConfigureAlertRequest("user1",
     AlertConfig("a4", "BTC", RSI_OVERSOLD, 30, TRUE, Absent)),
   DeleteAlertRequest("user1", "a1")}

InitFlush ==
  /\ started = FALSE
  /\ alerts = FlushRules
  /\ triggered_alerts = <<>>
  /\ pending_alerts \in StoredQueues
  /\ subscribed_users \in {<<"user1">>, <<"user1", "user2">>}
  /\ inbox \in SeqsUpTo(FlushMsgs, MaxFlushInbox)
  /\ now = 0
  /\ outbox = <<>>
  /\ HistoryIdle
  /\ FlushIdle
  /\ GasIdle
  /\ RestIdle

FlushSpec == InitFlush /\ [][FlushNext]_vars

\* the stored rules without the trend an analysis pass carries over
RulesOf(alert_list) ==
  [i \in 1..Len(alert_list) |-> WithoutTrend(alert_list[i])]

\* the step handles a configure or a delete request
RuleRequestStep ==
  /\ inbox # <<>>
  /\ inbox' = Tail(inbox)
  /\ IsConfigureAlertRequest(Head(inbox)) \/ IsDeleteAlertRequest(Head(inbox))

\* C27: a rule change made by a configure or delete request is not undone
\* by an analysis pass.  The request leaves the rule in (or out of) the
\* store, and no other step of the running agent, the write-back of a pass
\* after its awaited flush included, changes the stored rules
C27_RuleStep ==
  /\ (RuleRequestStep /\ IsConfigureAlertRequest(Head(inbox))) =>
       \E i \in 1..Len(alerts') : alerts'[i] = Head(inbox).config
  /\ (RuleRequestStep /\ IsDeleteAlertRequest(Head(inbox))) =>
       \A i \in 1..Len(alerts') : alerts'[i].alert_id # Head(inbox).alert_id
  /\ (started /\ ~RuleRequestStep) => RulesOf(alerts') = RulesOf(alerts)

C27_RuleChangeKept == [][C27_RuleStep]_vars

\* a1 was configured to threshold 40; a later pass fired it at that
\* threshold, was suspended in its flush, and wrote the rule list back with
\* the configured rule in it
C27_Witness ==
  /\ started
  /\ inbox = <<>>
  /\ flushes[Handler].pc = "idle"
  /\ \E n \in 1..Len(triggered_alerts) :
       /\ triggered_alerts[n].alert_id = "a1"
       /\ triggered_alerts[n].threshold = 40
  /\ \E i \in 1..Len(alerts) :
       alerts[i] = AlertConfig("a1", "BTC", PRICE_ABOVE, 40, TRUE, Absent)
  /\ \E i \in 1..Len(alerts) :
       alerts[i] = AlertConfig("a2", "BTC", TREND_REVERSAL, 0, TRUE, DOWN)

\* C28: the flush of the retry timer and the flush of
\* handle_analysis_result are serialized: while one is suspended in a send
\* the other is not in a send
C28_FlushesSerialized ==
  ~(flushes[Timer].pc = "sending" /\ flushes[Handler].pc = "sending")

----------------------------------------------------------------------------
(* Gas monitor: the threshold store *)

GasClient == "client"

\* LOW_THRESHOLD, MEDIUM_THRESHOLD and HIGH_THRESHOLD of the environment,
\* left at their defaults
LOW_THRESHOLD == 20
MEDIUM_THRESHOLD == 50
HIGH_THRESHOLD == 100

GasPriceThresholds(low, medium, high) ==
  [low_threshold |-> low, medium_threshold |-> medium,
   high_threshold |-> high]

SetThresholdsRequest(sender, requested) ==
  [sender |-> sender, thresholds |-> requested]

SetThresholdsResponse(success, message) ==
  [success |-> success, message |-> message]

\* the dictionary written under "thresholds"
StoredThresholds(low, medium, high) ==
  [present |-> TRUE, low_threshold |-> low, medium_threshold |-> medium,
   high_threshold |-> high]

\* the request is a SetThresholdsRequest
IsSetThresholds(msg) == "thresholds" \in DOMAIN msg

\* @gas_monitor_agent.on_event("startup"); an absent list of historical data
\* and an empty one are the same value here
gas_startup ==
  /\ ~gas_started
  /\ gas_started' = TRUE
  /\ thresholds' =
       IF ~thresholds.present
       THEN StoredThresholds(LOW_THRESHOLD, MEDIUM_THRESHOLD, HIGH_THRESHOLD)
       ELSE thresholds
  /\ previous_gas_level' = Absent
  /\ gas_checks' = 0
  /\ outbox' = <<>>
  /\ UNCHANGED <<gas_inbox, gas_notifications, gas_historical_data, flushes, now>>
  /\ UNCHANGED alertVars
  /\ UNCHANGED historyVars
  /\ UNCHANGED restVars

\* variant: only the first comparison is made
RejectionOfLow(requested) ==
  IF requested.low_threshold >= requested.medium_threshold
  THEN "Low threshold must be less than medium threshold"
  ELSE Absent

\* the message of the failure response, Absent when the request passes
Rejection(requested) ==
  IF requested.low_threshold >= requested.medium_threshold
  THEN "Low threshold must be less than medium threshold"
  ELSE IF requested.medium_threshold >= requested.high_threshold
  THEN "Medium threshold must be less than high threshold"
  ELSE Absent

\* @gas_monitor_protocol.on_message(model=SetThresholdsRequest)
handle_set_thresholds ==
  /\ gas_started
  /\ gas_inbox # <<>>
  /\ IsSetThresholds(Head(gas_inbox))
  /\ LET msg == Head(gas_inbox)
         requested == msg.thresholds
     IN IF Rejection(requested) # Absent
        THEN /\ outbox' =
                  <<Reply(msg.sender,
                          SetThresholdsResponse(FALSE, Rejection(requested)))>>
             /\ UNCHANGED thresholds
        ELSE /\ thresholds' =
                  StoredThresholds(requested.low_threshold,
                                   requested.medium_threshold,
                                   requested.high_threshold)
             /\ outbox' =
                  <<Reply(msg.sender,
                          SetThresholdsResponse(
                            TRUE, "Thresholds updated successfully"))>>
  /\ gas_inbox' = Tail(gas_inbox)
  /\ UNCHANGED <<gas_started, previous_gas_level, gas_notifications,
                 gas_historical_data, gas_checks, flushes, now>>
  /\ UNCHANGED alertVars
  /\ UNCHANGED historyVars
  /\ UNCHANGED restVars

GasNext ==
  \/ gas_startup
  \/ handle_set_thresholds

\* the numbers a request can carry
GasLevels == {20, 50, 100}

GasMsgs ==
  {SetThresholdsRequest(GasClient, GasPriceThresholds(low, medium, high)) :
     low \in GasLevels, medium \in GasLevels, high \in GasLevels}

\* thresholds left by an earlier run: none, or a set accepted then
StoredGas == {NoThresholds, StoredThresholds(20, 50, 100)}

InitGas ==
  /\ AlertIdle
  /\ HistoryIdle
  /\ FlushIdle
  /\ now = 0
  /\ outbox = <<>>
  /\ RestIdle
  /\ previous_gas_level = Absent
  /\ gas_notifications = <<>>
  /\ gas_historical_data = <<>>
  /\ gas_checks = 0
  /\ thresholds \in StoredGas
  /\ gas_started = FALSE
  /\ gas_inbox \in SeqsUpTo(GasMsgs, MaxGasInbox)

GasSpec == InitGas /\ [][GasNext]_vars

----------------------------------------------------------------------------
(* C25: thresholds out of order are refused *)

\* a step in which the gas monitor takes the request at the head of its
\* inbox
C25_SetStep ==
  /\ gas_inbox # <<>>
  /\ gas_inbox' = Tail(gas_inbox)

C25_ThresholdStep ==
  IF C25_SetStep
  THEN LET requested == Head(gas_inbox).thresholds
       IN /\ Len(outbox') = 1
          /\ outbox'[1].to = Head(gas_inbox).sender
          /\ IF /\ requested.low_threshold < requested.medium_threshold
                /\ requested.medium_threshold < requested.high_threshold
             THEN /\ outbox'[1].msg.success = TRUE
                  /\ thresholds'.present
                  /\ thresholds'.low_threshold = requested.low_threshold
                  /\ thresholds'.medium_threshold =
                       requested.medium_threshold
                  /\ thresholds'.high_threshold = requested.high_threshold
             ELSE /\ outbox'[1].msg.success = FALSE
                  /\ outbox'[1].msg.message # ""
                  /\ thresholds' = thresholds
  ELSE thresholds' # thresholds => (~gas_started /\ ~thresholds.present)

\* C25: a SetThresholdsRequest with low >= medium or medium >= high is
\* answered with success=false and a reason and leaves the stored
\* thresholds as they were; a request with low < medium < high stores its
\* three thresholds and is answered with success=true; apart from such a
\* request only the startup of an agent without stored thresholds writes
\* them.
C25_ThresholdsValidated == [][C25_ThresholdStep]_vars

\* a request with medium >= high was refused and the stored thresholds are
\* the ones held before it
C25_Witness ==
  /\ gas_started
  /\ gas_inbox = <<>>
  /\ Len(outbox) = 1
  /\ outbox[1].msg = SetThresholdsResponse(
                        FALSE,
                        "Medium threshold must be less than high threshold")
  /\ thresholds = StoredThresholds(20, 50, 100)

----------------------------------------------------------------------------
(* C31: what a start of the alert agent writes *)

\* C31: a start of the alert agent seeds the three default rules exactly
\* when no rule is stored; with a rule stored it leaves the rule store as it
\* was, and in both cases the triggered-alert log and the pending queue
C31_StartupStep ==
  (~started /\ started') =>
    /\ alerts = <<>> =>
         /\ Len(alerts') = 3
         /\ alerts'[1].symbol = "BTC" /\ alerts'[1].alert_type = PRICE_ABOVE
         /\ alerts'[1].threshold = 80000
         /\ alerts'[2].symbol = "ETH" /\ alerts'[2].alert_type = PRICE_BELOW
         /\ alerts'[2].threshold = 1600
         /\ alerts'[3].symbol = "SOL" /\ alerts'[3].alert_type = PRICE_ABOVE
         /\ alerts'[3].threshold = 100
    /\ alerts # <<>> => alerts' = alerts
    /\ triggered_alerts' = triggered_alerts
    /\ pending_alerts' = pending_alerts

C31_StartupSeedsOnlyEmptyStore == [][C31_StartupStep]_vars

\* the agent has just started again on a store of one or two rules, a
\* logged notification and a queued one
C31_Witness ==
  /\ started
  /\ outbox = <<>>
  /\ Len(alerts) \in {1, 2}
  /\ triggered_alerts # <<>>
  /\ pending_alerts # <<>>

----------------------------------------------------------------------------
(* C32: the signals generate_trading_signal can return *)

\* the signal and strength pass the three restrictions for the given votes
Restricted(result, trend, rsi, macd, signal) ==
  /\ result[1] \in {BUY, SELL, HOLD}
  /\ result[1] = HOLD => result[2] = WEAK
  /\ result[2] = STRONG =>
       \/ Cardinality(BuyVoters(trend, rsi, macd, signal)) = 3
       \/ Cardinality(SellVoters(trend, rsi, macd, signal)) = 3

\* C32: generate_trading_signal never returns the signal NONE, returns HOLD
\* only with strength WEAK, and returns STRONG only when the trend, the RSI
\* and the MACD all vote the same way; so does every stored result
C32_SignalRestricted ==
  /\ \A trend \in {UP, DOWN, SIDEWAYS}, rsi \in RsiGrid,
        macd \in MacdGrid, signal \in MacdGrid :
       Restricted(generate_trading_signal(trend, rsi, macd, signal),
                  trend, rsi, macd, signal)
  /\ \A s \in Symbols :
       analysis_results[s].present =>
         Restricted(<<analysis_results[s].signal,
                      analysis_results[s].signal_strength>>,
                    analysis_results[s].trend, analysis_results[s].rsi,
                    analysis_results[s].macd, analysis_results[s].macd_signal)

\* a handler has stored a result in which the trend votes to buy, the RSI
\* to sell and the MACD not at all: HOLD, and WEAK
C32_Witness ==
  \E s \in Symbols :
    /\ analysis_results[s].present
    /\ analysis_results[s].timestamp = 0
    /\ analysis_results[s].trend = UP
    /\ analysis_results[s].rsi > 70 * Scale
    /\ analysis_results[s].macd = 0
    /\ analysis_results[s].signal = HOLD
    /\ analysis_results[s].signal_strength = WEAK

----------------------------------------------------------------------------
(* Requests: the price agent and the analysis agent on a stored history *)

\* BTC has no stored point, or one point, written by an earlier run
InitRequest ==
  /\ AlertIdle
  /\ FlushIdle
  /\ GasIdle
  /\ RestIdle
  /\ now = 0
  /\ outbox = <<>>
  /\ \E prices \in {<<>>, <<0>>, <<100>>} :
       historical_data =
         [s \in Symbols |-> IF s = "BTC" THEN SeriesOf(prices) ELSE <<>>]
  /\ analysis_results = StoredResults(historical_data)
  /\ analysis_inbox = <<>>
  /\ analysis_started = FALSE
  /\ subscribed_agents = <<>>
  /\ price_history = NoHistory
  /\ latest_prices = NoPrices
  /\ price_inbox = <<>>

RequestSpec == InitRequest /\ [][PriceNext]_vars

\* the step handles the PriceRequest at the head of the price agent's queue
PriceRequestStep ==
  /\ price_inbox # <<>>
  /\ Len(price_inbox') = Len(price_inbox) - 1

\* the step handles an AnalysisRequest of the user agent
AnalysisRequestStep ==
  /\ analysis_started
  /\ analysis_started'
  /\ analysis_inbox' = analysis_inbox
  /\ now' = now
  /\ Len(price_inbox') >= Len(price_inbox)

\* the messages of the last step that answer a request
PriceResponsesTo(sender, sent) ==
  {i \in 1..Len(sent) : sent[i].to = sender /\ IsPriceResponse(sent[i].msg)}

AnalysisResponsesIn(sent) ==
  {i \in 1..Len(sent) : "results" \in DOMAIN sent[i].msg}

C33_RequestStep ==
  /\ PriceRequestStep =>
       /\ Cardinality(PriceResponsesTo(Head(price_inbox).sender, outbox')) = 1
       /\ \A i \in 1..Len(outbox') :
            /\ IsPriceResponse(outbox'[i].msg)
            /\ DOMAIN outbox'[i].msg.prices = {} =>
                 \/ outbox'[i].msg.source = "Error"
                 \/ Head(price_inbox).symbols = <<>>
  /\ AnalysisRequestStep =>
       /\ Cardinality(AnalysisResponsesIn(outbox')) = 1
       /\ \A i \in AnalysisResponsesIn(outbox') :
            /\ outbox'[i].to = UserAgent
            /\ Len(outbox'[i].msg.results) <= 1

\* C33: every PriceRequest the price agent handles is answered with exactly
\* one PriceResponse to its sender (an empty price map with source "Error"
\* when the fetch fails), and every AnalysisRequest the analysis agent
\* handles with exactly one AnalysisResponse of zero or one result
C33_EveryRequestAnswered == [][C33_RequestStep]_vars

----------------------------------------------------------------------------
(* Gas monitor: the periodic check and the price request *)

MaxGasClock == 3

\* the length the stored notifications and the stored history are cut to
MaxNotifications == 100
MaxGasHistory == 1000

\* ENABLE_NOTIFICATIONS of the environment, left at its default
ENABLE_NOTIFICATIONS == TRUE

\* class GasLevel(str, Enum): a level and its stored value compare equal
GAS_LOW == "low"
GAS_MEDIUM == "medium"
GAS_HIGH == "high"
GAS_VERY_HIGH == "very_high"

GasPriceData(timestamp, safe_price, propose_price, fast_price, source) ==
  [timestamp |-> timestamp, safe_gas_price |-> safe_price,
   propose_gas_price |-> propose_price, fast_gas_price |-> fast_price,
   source |-> source]

\* what the gas oracle can answer: no answer (no API key, a request error,
\* a status other than "1"), or the three prices in Gwei
NoAnswer == [ok |-> FALSE]

OracleAnswer(safe, propose, fast) ==
  [ok |-> TRUE, SafeGasPrice |-> safe, ProposeGasPrice |-> propose,
   FastGasPrice |-> fast]

\* the None of fetch_gas_prices
NoGasData == [present |-> FALSE]

\* fetch_gas_prices: the data of Etherscan, or None
fetch_gas_prices(answer, timestamp) ==
  IF answer.ok
  THEN GasPriceData(timestamp, answer.SafeGasPrice, answer.ProposeGasPrice,
                    answer.FastGasPrice, "Etherscan")
  ELSE NoGasData

\* GasPriceData.get_level
get_level(gas_data, low_threshold, medium_threshold, high_threshold) ==
  IF gas_data.propose_gas_price < low_threshold THEN GAS_LOW
  ELSE IF gas_data.propose_gas_price < medium_threshold THEN GAS_MEDIUM
  ELSE IF gas_data.propose_gas_price < high_threshold THEN GAS_HIGH
  ELSE GAS_VERY_HIGH

\* variant: the first check is treated like any other
should_notify_on_change(gas_level, previous_level) ==
  IF ~ENABLE_NOTIFICATIONS THEN FALSE
  ELSE IF gas_level = GAS_LOW /\ previous_level # GAS_LOW THEN TRUE
  ELSE IF \/ previous_level = GAS_LOW /\ gas_level # GAS_LOW
          \/ previous_level = GAS_VERY_HIGH /\ gas_level # GAS_VERY_HIGH
  THEN TRUE
  ELSE FALSE

should_notify(gas_level, previous_level) ==
  IF ~ENABLE_NOTIFICATIONS THEN FALSE
  ELSE IF previous_level = Absent THEN TRUE
  ELSE IF gas_level = GAS_LOW /\ previous_level # GAS_LOW THEN TRUE
  ELSE IF \/ previous_level = GAS_LOW /\ gas_level # GAS_LOW
          \/ previous_level = GAS_VERY_HIGH /\ gas_level # GAS_VERY_HIGH
  THEN TRUE
  ELSE FALSE

\* the text of the notification: its kind and the price it quotes
get_notification_message(gas_data, gas_level) ==
  IF gas_level = GAS_LOW
  THEN <<"LOW GAS ALERT", gas_data.propose_gas_price>>
  ELSE IF gas_level = GAS_MEDIUM
  THEN <<"moderate", gas_data.propose_gas_price, gas_data.safe_gas_price,
         gas_data.fast_gas_price>>
  ELSE IF gas_level = GAS_HIGH
  THEN <<"high", gas_data.propose_gas_price>>
  ELSE <<"very high", gas_data.propose_gas_price>>

GasPriceNotification(timestamp, gas_data, gas_level, message) ==
  [timestamp |-> timestamp, gas_level |-> gas_level,
   safe_gas_price |-> gas_data.safe_gas_price,
   propose_gas_price |-> gas_data.propose_gas_price,
   fast_gas_price |-> gas_data.fast_gas_price, message |-> message]

HistoryPoint(gas_data) ==
  [timestamp |-> gas_data.timestamp,
   safe_gas_price |-> gas_data.safe_gas_price,
   propose_gas_price |-> gas_data.propose_gas_price,
   fast_gas_price |-> gas_data.fast_gas_price]

GetGasPriceRequest(sender) == [sender |-> sender, get_gas_price |-> TRUE]

GetGasPriceResponse(gas_data, gas_level) ==
  [gas_data |-> gas_data, gas_level |-> gas_level]

IsGetGasPrice(msg) == "get_gas_price" \in DOMAIN msg

\* the answers of the oracle the model draws from: one price per level of
\* the default thresholds, and no answer
OracleAnswers ==
  {NoAnswer, OracleAnswer(8, 10, 15), OracleAnswer(25, 30, 40),
   OracleAnswer(55, 60, 80), OracleAnswer(120, 150, 200)}

\* @gas_monitor_agent.on_interval(period=UPDATE_INTERVAL)
check_gas_prices ==
  /\ gas_started
  /\ now < MaxGasClock
  /\ now' = now + 1
  /\ \E answer \in OracleAnswers :
       LET gas_data == fetch_gas_prices(answer, now)
       IN IF gas_data = NoGasData
          THEN UNCHANGED <<previous_gas_level, gas_notifications,
                           gas_historical_data, gas_checks>>
          ELSE LET gas_level ==
                     get_level(gas_data, thresholds.low_threshold,
                               thresholds.medium_threshold,
                               thresholds.high_threshold)
               IN /\ gas_notifications' =
                       IF should_notify(gas_level, previous_gas_level)
                       THEN LastN(Append(gas_notifications,
                                         GasPriceNotification(
                                           now, gas_data, gas_level,
                                           get_notification_message(
                                             gas_data, gas_level))),
                                  MaxNotifications)
                       ELSE gas_notifications
                  /\ previous_gas_level' = gas_level
                  /\ gas_historical_data' =
                       LastN(Append(gas_historical_data,
                                    HistoryPoint(gas_data)),
                             MaxGasHistory)
                  /\ gas_checks' = gas_checks + 1
  /\ outbox' = <<>>
  /\ UNCHANGED <<thresholds, gas_started, gas_inbox, flushes>>
  /\ UNCHANGED alertVars
  /\ UNCHANGED historyVars
  /\ UNCHANGED restVars

\* @gas_monitor_protocol.on_message(model=GetGasPriceRequest)
handle_get_gas_price ==
  /\ gas_started
  /\ gas_inbox # <<>>
  /\ IsGetGasPrice(Head(gas_inbox))
  /\ \E answer \in OracleAnswers :
       LET gas_data == fetch_gas_prices(answer, now)
       IN outbox' =
            IF gas_data = NoGasData
            THEN <<>>
            ELSE <<Reply(Head(gas_inbox).sender,
                         GetGasPriceResponse(
                           gas_data,
                           get_level(gas_data, thresholds.low_threshold,
                                     thresholds.medium_threshold,
                                     thresholds.high_threshold)))>>
  /\ gas_inbox' = Tail(gas_inbox)
  /\ UNCHANGED <<thresholds, gas_started, previous_gas_level,
                 gas_notifications, gas_historical_data, gas_checks,
                 flushes, now>>
  /\ UNCHANGED alertVars
  /\ UNCHANGED historyVars
  /\ UNCHANGED restVars

\* the agent process ends; its storage file stays
gas_stop ==
  /\ gas_started
  /\ gas_started' = FALSE
  /\ outbox' = <<>>
  /\ UNCHANGED <<thresholds, gas_inbox, previous_gas_level,
                 gas_notifications, gas_historical_data, gas_checks,
                 flushes, now>>
  /\ UNCHANGED alertVars
  /\ UNCHANGED historyVars
  /\ UNCHANGED restVars

GasCheckNext ==
  \/ gas_startup
  \/ gas_stop
  \/ check_gas_prices
  \/ handle_set_thresholds
  \/ handle_get_gas_price

GasClients == {GasClient, "client2"}

\* the requests of the clients: the current price, or thresholds that move
\* the price 30 from MEDIUM to LOW
GasCheckMsgs ==
  {GetGasPriceRequest(sender) : sender \in GasClients}
    \cup {SetThresholdsRequest(GasClient, GasPriceThresholds(40, 50, 100))}

InitGasCheck ==
  /\ AlertIdle
  /\ HistoryIdle
  /\ FlushIdle
  /\ RestIdle
  /\ now = 0
  /\ outbox = <<>>
  /\ thresholds \in StoredGas
  /\ gas_started = FALSE
  /\ gas_inbox \in SeqsUpTo(GasCheckMsgs, MaxGasInbox)
  /\ previous_gas_level \in {Absent, GAS_MEDIUM}
  /\ gas_notifications = <<>>
  /\ gas_historical_data = <<>>
  /\ gas_checks = 0

GasCheckSpec == InitGasCheck /\ [][GasCheckNext]_vars

\* the agent, once started, takes the messages of its inbox
GasFairSpec ==
  /\ GasCheckSpec
  /\ WF_vars(gas_startup)
  /\ WF_vars(handle_set_thresholds)
  /\ WF_vars(handle_get_gas_price)

----------------------------------------------------------------------------
(* C34: every price request is answered *)

GasPriceRequested(sender) ==
  /\ gas_inbox # <<>>
  /\ Head(gas_inbox) = GetGasPriceRequest(sender)

GasPriceAnswered(sender) ==
  \E i \in 1..Len(outbox) :
    /\ outbox[i].to = sender
    /\ "gas_level" \in DOMAIN outbox[i].msg

\* C34: every GetGasPriceRequest the gas monitor receives is eventually
\* answered with a GetGasPriceResponse to its sender, also when the fetch
\* of the gas prices fails
C34_GasPriceAnswered ==
  \A sender \in GasClients :
    GasPriceRequested(sender) ~> GasPriceAnswered(sender)

----------------------------------------------------------------------------
(* C35: when a check notifies *)

\* a step of check_gas_prices whose fetch succeeded
C35_Checked == Len(gas_historical_data') = Len(gas_historical_data) + 1

C35_LevelChecked ==
  LET price ==
        gas_historical_data'[Len(gas_historical_data')].propose_gas_price
  IN IF price < thresholds.low_threshold THEN "low"
     ELSE IF price < thresholds.medium_threshold THEN "medium"
     ELSE IF price < thresholds.high_threshold THEN "high"
     ELSE "very_high"

C35_CheckStep ==
  C35_Checked =>
    /\ gas_checks = 0 =>
         /\ Len(gas_notifications') = Len(gas_notifications) + 1
         /\ gas_notifications'[Len(gas_notifications')].gas_level =
              C35_LevelChecked
    /\ previous_gas_level = C35_LevelChecked =>
         gas_notifications' = gas_notifications
    /\ previous_gas_level' = C35_LevelChecked

\* C35: with notifications enabled, the first successful gas check after
\* each startup stores a notification, a check whose level equals the
\* previously stored level stores none, and after every successful check
\* the stored previous level is the level just computed
C35_NotifiesOnFirstAndChange == [][C35_CheckStep]_vars

\* a first check notified, the agent was started again, its first check
\* notified again and the check after it, of the same level, did not
C35_Witness ==
  /\ gas_started
  /\ gas_checks = 2
  /\ Len(gas_historical_data) = 3
  /\ Len(gas_notifications) = 2
  /\ gas_historical_data[2].propose_gas_price = 60
  /\ gas_historical_data[3].propose_gas_price = 60
  /\ gas_notifications[2].timestamp = gas_historical_data[2].timestamp
  /\ previous_gas_level = GAS_HIGH

----------------------------------------------------------------------------
(* run.py: the supervisor of the four agents *)

\* list(AGENTS.keys())
AgentOrder == <<"price", "analysis", "alert", "user">>

\* AGENTS[agent_key]['dependencies']
dependencies(agent_key) ==
  IF agent_key = "price" THEN <<>>
  ELSE IF agent_key = "analysis" THEN <<"price">>
  ELSE IF agent_key = "alert" THEN <<"analysis">>
  ELSE <<"price", "analysis", "alert">>

\* the values of processes[agent_key]: Absent for no entry, NoProcess for
\* None, and a process that runs or has exited
NoProcess == "None"
Running == "running"
Exited == "exited"

\* the choices of --agents
Choices == AgentKeys \cup {"all"}

\* what --agents can be given: the choices in any order, none of them twice
Selections ==
  {selection \in SeqsUpTo(Choices, Cardinality(Choices)) :
     /\ selection # <<>>
     /\ \A i, j \in 1..Len(selection) :
          selection[i] = selection[j] => i = j}

\* main, "Determine which agents to run"
AgentKeysOf(selection) ==
  IF "all" \in Range(selection) THEN AgentOrder ELSE selection

\* agent_keys.remove(agent_key): the first occurrence is taken out
RECURSIVE Removed(_, _)
Removed(keys, agent_key) ==
  IF keys = <<>> THEN <<>>
  ELSE IF Head(keys) = agent_key THEN Tail(keys)
  ELSE <<Head(keys)>> \o Removed(Tail(keys), agent_key)

\* all(dep in sorted_agents for dep in AGENTS[agent_key]['dependencies'])
AllSorted(agent_key, sorted) ==
  \A i \in 1..Len(dependencies(agent_key)) :
    dependencies(agent_key)[i] \in Range(sorted)

\* one run of `for agent_key in list(agent_keys)`: the lists it leaves
RECURSIVE ForPass(_, _, _)
ForPass(snapshot, keys, sorted) ==
  IF snapshot = <<>> THEN [agent_keys |-> keys, sorted_agents |-> sorted]
  ELSE IF AllSorted(Head(snapshot), sorted)
  THEN ForPass(Tail(snapshot), Removed(keys, Head(snapshot)),
               Append(sorted, Head(snapshot)))
  ELSE ForPass(Tail(snapshot), keys, sorted)

\* main, one turn of `while agent_keys`; the turn that empties the list is
\* followed by the call of start_agents(sorted_agents)
sort_agents ==
  /\ main_pc = "sort"
  /\ agent_keys # <<>>
  /\ LET pass == ForPass(agent_keys, agent_keys, sorted_agents)
     IN /\ sorted_agents' = pass.sorted_agents
        /\ IF pass.agent_keys = <<>>
           THEN /\ agent_keys' = pass.sorted_agents
                /\ main_pc' = "start"
           ELSE /\ agent_keys' = pass.agent_keys
                /\ main_pc' = "sort"
  /\ UNCHANGED <<processes, agent_addresses, now, outbox, flushes>>
  /\ UNCHANGED <<alertVars, historyVars, gasVars, reportVars, relayVars>>

\* variant: an agent is started when its dependencies have a process
start_agent_processes(agent_key) ==
  IF \A i \in 1..Len(dependencies(agent_key)) :
       processes[dependencies(agent_key)[i]] = Running
  THEN Running
  ELSE NoProcess

\* start_agent: the process it returns, or None
start_agent(agent_key) ==
  IF \A i \in 1..Len(dependencies(agent_key)) :
       dependencies(agent_key)[i] \in agent_addresses
  THEN Running
  ELSE NoProcess

\* the body of the loop of start_agents for one agent
Started(agent_key) ==
  IF processes[agent_key] \in {Absent, NoProcess}
       /\ start_agent(agent_key) # NoProcess
  THEN [processes EXCEPT ![agent_key] = start_agent(agent_key)]
  ELSE processes

\* start_agents called by main: one turn of its loop, the sleep included
start_agents ==
  /\ main_pc = "start"
  /\ agent_keys # <<>>
  /\ processes' = Started(Head(agent_keys))
  /\ agent_keys' = Tail(agent_keys)
  /\ main_pc' = IF Tail(agent_keys) = <<>> THEN "watch" ELSE "start"
  /\ UNCHANGED <<sorted_agents, agent_addresses, now, outbox, flushes>>
  /\ UNCHANGED <<alertVars, historyVars, gasVars, reportVars, relayVars>>

\* monitor_agent_output: the thread of an agent reads the line that holds
\* its address
monitor_agent_output(agent_key) ==
  /\ processes[agent_key] \in {Running, Exited}
  /\ agent_key \notin agent_addresses
  /\ agent_addresses' = agent_addresses \cup {agent_key}
  /\ UNCHANGED <<agent_keys, sorted_agents, processes, main_pc, now, outbox,
                 flushes>>
  /\ UNCHANGED <<alertVars, historyVars, gasVars, reportVars, relayVars>>

\* the process of an agent ends by itself
crash(agent_key) ==
  /\ processes[agent_key] = Running
  /\ processes' = [processes EXCEPT ![agent_key] = Exited]
  /\ UNCHANGED <<agent_keys, sorted_agents, agent_addresses, main_pc, now,
                 outbox, flushes>>
  /\ UNCHANGED <<alertVars, historyVars, gasVars, reportVars, relayVars>>

\* main, "Check if any agent has crashed": stop_agent, then
\* start_agents([agent_key])
restart_agent(agent_key) ==
  /\ main_pc = "watch"
  /\ processes[agent_key] = Exited
  /\ processes' = [processes EXCEPT ![agent_key] = start_agent(agent_key)]
  /\ UNCHANGED <<agent_keys, sorted_agents, agent_addresses, main_pc, now,
                 outbox, flushes>>
  /\ UNCHANGED <<alertVars, historyVars, gasVars, reportVars, relayVars>>

SupervisorNext ==
  \/ sort_agents
  \/ start_agents
  \/ \E agent_key \in AgentKeys : monitor_agent_output(agent_key)
  \/ \E agent_key \in AgentKeys : crash(agent_key)
  \/ \E agent_key \in AgentKeys : restart_agent(agent_key)

\* main has parsed --agents and is about to sort
InitSupervisor ==
  /\ AlertIdle
  /\ HistoryIdle
  /\ FlushIdle
  /\ GasIdle
  /\ now = 0
  /\ outbox = <<>>
  /\ \E selection \in Selections : agent_keys = AgentKeysOf(selection)
  /\ sorted_agents = <<>>
  /\ processes = [agent_key \in AgentKeys |-> Absent]
  /\ agent_addresses = {}
  /\ main_pc = "sort"
  /\ wake_at = NoneNum
  /\ reports = <<>>
  /\ relay_inbox = <<>>
  /\ webhook = <<>>

SupervisorSpec == InitSupervisor /\ [][SupervisorNext]_vars

\* the main thread runs
SortSpec == SupervisorSpec /\ WF_vars(sort_agents)

----------------------------------------------------------------------------
(* C36: the dependency sort *)

\* each agent of the list comes after all of its dependencies
Ordered(sorted) ==
  \A i \in 1..Len(sorted) :
    \A d \in 1..Len(dependencies(sorted[i])) :
      \E j \in 1..(i - 1) : sorted[j] = dependencies(sorted[i])[d]

\* C36: for every selection of agents the dependency sort of main
\* terminates, and the order it produces has each agent after all of its
\* dependencies
C36_SortTerminatesOrdered ==
  <>(main_pc # "sort" /\ Ordered(sorted_agents))

----------------------------------------------------------------------------
(* C37: no launch without the addresses of the dependencies *)

\* an address is known for every dependency of the agent
C37_Addressed(agent_key) ==
  \A d \in 1..Len(dependencies(agent_key)) :
    dependencies(agent_key)[d] \in agent_addresses

C37_LaunchStep ==
  \A agent_key \in AgentKeys :
    /\ (processes'[agent_key] = Running /\ processes[agent_key] # Running)
         => C37_Addressed(agent_key)
    /\ (/\ main_pc = "start"
        /\ agent_keys # <<>>
        /\ Head(agent_keys) = agent_key
        /\ Len(agent_keys') < Len(agent_keys)
        /\ ~C37_Addressed(agent_key))
         => processes'[agent_key] = processes[agent_key]

\* C37: the supervisor launches an agent process only when an address has
\* been detected for each of its dependencies; otherwise start_agent
\* returns no process and the agent is not recorded as running
C37_LaunchNeedsAddresses == [][C37_LaunchStep]_vars

\* the price agent was launched, its address had not been read when the
\* analysis agent's turn came, and the analysis agent has no process
C37_Witness ==
  /\ main_pc = "watch"
  /\ sorted_agents = <<"price", "analysis">>
  /\ processes["price"] = Running
  /\ processes["analysis"] = Absent
  /\ agent_addresses = {}

----------------------------------------------------------------------------
(* Content analyzer: the schedule of the weekly report *)

\* the clock counts parts of a day from a Monday 00:00
UnitsPerDay == 2
MaxReportClock == 16
MaxReports == 2

DaysPerWeek == 7

UnitsPerWeek == DaysPerWeek * UnitsPerDay

\* datetime.weekday(): Monday is 0
weekday(time) == (time \div UnitsPerDay) % DaysPerWeek

\* now.replace(hour=0, minute=0, second=0, microsecond=0)
Midnight(time) == time - (time % UnitsPerDay)

\* schedule_weekly_report: the wait_seconds computed at the time `time`
wait_seconds(time) ==
  LET days_until_monday == (DaysPerWeek - weekday(time)) % DaysPerWeek
      next_monday == Midnight(time) + days_until_monday * UnitsPerDay
  IN next_monday - time

\* schedule_weekly_report, the head of its loop up to asyncio.sleep: a
\* sleep of zero or of less returns at once
schedule_weekly_report ==
  /\ wake_at = NoneNum
  /\ Len(reports) < MaxReports
  /\ wake_at' = IF wait_seconds(now) > 0 THEN now + wait_seconds(now) ELSE now
  /\ UNCHANGED <<reports, now, outbox, flushes>>
  /\ UNCHANGED <<alertVars, historyVars, gasVars, supervisorVars, relayVars>>

\* the sleep has ended: generate_scheduled_report(ctx, TimeFrame.WEEK),
\* then the loop starts over
generate_scheduled_report ==
  /\ wake_at # NoneNum
  /\ now >= wake_at
  /\ reports' = Append(reports, now)
  /\ wake_at' = NoneNum
  /\ UNCHANGED <<now, outbox, flushes>>
  /\ UNCHANGED <<alertVars, historyVars, gasVars, supervisorVars, relayVars>>

\* time passes
report_tick ==
  /\ now < MaxReportClock
  /\ now' = now + 1
  /\ UNCHANGED <<wake_at, reports, outbox, flushes>>
  /\ UNCHANGED <<alertVars, historyVars, gasVars, supervisorVars, relayVars>>

ReportNext ==
  \/ schedule_weekly_report
  \/ generate_scheduled_report
  \/ report_tick

\* startup has created the task at any time of the week
InitReport ==
  /\ AlertIdle
  /\ HistoryIdle
  /\ FlushIdle
  /\ GasIdle
  /\ outbox = <<>>
  /\ now \in 0..(UnitsPerWeek - 1)
  /\ wake_at = NoneNum
  /\ reports = <<>>
  /\ agent_keys = <<>>
  /\ sorted_agents = <<>>
  /\ processes = [agent_key \in AgentKeys |-> Absent]
  /\ agent_addresses = {}
  /\ main_pc = "idle"
  /\ relay_inbox = <<>>
  /\ webhook = <<>>

ReportSpec == InitReport /\ [][ReportNext]_vars

----------------------------------------------------------------------------
(* C38: the weekly report waits for the next Monday *)

C38_ScheduleStep ==
  /\ (wake_at = NoneNum /\ wake_at' # NoneNum) =>
       /\ wake_at' > now
       /\ wake_at' % UnitsPerWeek = 0
  /\ \A i \in 1..(Len(reports') - 1) :
       reports'[i + 1] - reports'[i] >= UnitsPerWeek

\* C38: schedule_weekly_report always waits until a Monday 00:00 strictly
\* after the current time, whatever the weekday and the time of day, so two
\* consecutive weekly reports are at least one week apart
C38_WaitsForNextMonday == [][C38_ScheduleStep]_vars

----------------------------------------------------------------------------
(* Relay alert agent: alerts forwarded to the webhook *)

MaxRelayInbox == 3

AlertMsg(sender, symbol, price, timestamp) ==
  [sender |-> sender, symbol |-> symbol, price |-> price,
   timestamp |-> timestamp]

AckMsg(detail) == [detail |-> detail]

\* msg.timestamp.isoformat()
isoformat(timestamp) == <<"iso", timestamp>>

\* the payload of handle_alert
Payload(msg) ==
  [symbol |-> msg.symbol, price |-> msg.price,
   timestamp |-> isoformat(msg.timestamp)]

\* how the call of the webhook ends: with a status, or with an exception
\* of aiohttp
Status(code) == [raised |-> FALSE, status |-> code]
ClientError == [raised |-> TRUE]
WebhookOutcomes == {Status(200), Status(500), ClientError}

\* what the webhook has seen of a call
Posted(msg, outcome) ==
  IF outcome.raised
  THEN webhook
  ELSE Append(webhook, [payload |-> Payload(msg), status |-> outcome.status])

\* variant: the acknowledgement is sent inside the branch of status 200
handle_alert_acks_success ==
  /\ relay_inbox # <<>>
  /\ \E outcome \in WebhookOutcomes :
       /\ webhook' = Posted(Head(relay_inbox), outcome)
       /\ outbox' =
            IF ~outcome.raised /\ outcome.status = 200
            THEN <<Reply(Head(relay_inbox).sender,
                         AckMsg("Alert processed"))>>
            ELSE <<>>
  /\ relay_inbox' = Tail(relay_inbox)
  /\ UNCHANGED <<now, flushes>>
  /\ UNCHANGED <<alertVars, historyVars, gasVars, supervisorVars, reportVars>>

\* @alert_agent.on_message(model=AlertMsg)
handle_alert ==
  /\ relay_inbox # <<>>
  /\ \E outcome \in WebhookOutcomes :
       webhook' = Posted(Head(relay_inbox), outcome)
  /\ outbox' = <<Reply(Head(relay_inbox).sender, AckMsg("Alert processed"))>>
  /\ relay_inbox' = Tail(relay_inbox)
  /\ UNCHANGED <<now, flushes>>
  /\ UNCHANGED <<alertVars, historyVars, gasVars, supervisorVars, reportVars>>

RelayNext == handle_alert

RelaySenders == {"caller", "n8n"}

RelayMsgs ==
  {AlertMsg(sender, symbol, 45000, 0) :
     sender \in RelaySenders, symbol \in {"BTC", "ETH"}}

InitRelay ==
  /\ AlertIdle
  /\ HistoryIdle
  /\ FlushIdle
  /\ GasIdle
  /\ now = 0
  /\ outbox = <<>>
  /\ relay_inbox \in SeqsUpTo(RelayMsgs, MaxRelayInbox)
  /\ webhook = <<>>
  /\ agent_keys = <<>>
  /\ sorted_agents = <<>>
  /\ processes = [agent_key \in AgentKeys |-> Absent]
  /\ agent_addresses = {}
  /\ main_pc = "idle"
  /\ wake_at = NoneNum
  /\ reports = <<>>

RelaySpec == InitRelay /\ [][RelayNext]_vars

----------------------------------------------------------------------------
(* C39: every alert is acknowledged *)

C39_AlertStep ==
  (relay_inbox # <<>> /\ relay_inbox' = Tail(relay_inbox)) =>
    /\ Len(outbox') = 1
    /\ outbox'[1].to = Head(relay_inbox).sender
    /\ outbox'[1].msg = [detail |-> "Alert processed"]

\* C39: every AlertMsg the relay alert agent receives is answered with
\* exactly one AckMsg to its sender, whether the webhook call returns 200,
\* another status or raises, and the agent goes on with the alerts that
\* follow a failed call
C39_EveryAlertAcked ==
  /\ [][C39_AlertStep]_vars
  /\ [](relay_inbox # <<>> => ENABLED handle_alert)

\* the webhook refused the alert of the caller with status 500, the caller
\* was answered, and the alert of n8n that followed was handled and n8n
\* answered though its call raised
C39_Witness ==
  /\ relay_inbox = <<>>
  /\ Len(webhook) = 1
  /\ webhook[1].status = 500
  /\ webhook[1].payload.symbol = "BTC"
  /\ outbox = <<Reply("n8n", AckMsg("Alert processed"))>>

====
